---- MODULE Spec2Model ----
(***************************************************************************)
(* Model of the selection / visibility engine of llmexportui:              *)
(*   path_utils.py, filter_engine.py, tree_manager.py, config_manager.py   *)
(*   and the handlers of main_window.py that drive them.                   *)
(*                                                                         *)
(* A Python str is a sequence of one-character strings, so that the        *)
(* separator handling of normalize_path / os.path.join / os.path.normpath  *)
(* is computed and not assumed.  The variable sep is os.path.sep of the    *)
(* platform the program runs on ("/" on POSIX, "\\" on Windows).           *)
(***************************************************************************)
EXTENDS Integers, Sequences, FiniteSets, TLC

VARIABLES
    sep,        \* os.path.sep of the platform
    disk,       \* the file system: set of existing entries
    cfg,        \* ConfigManager: current_folder, selections, folder_filters, recent_folders
    fe,         \* FilterEngine: _base_path, include_patterns, exclude_patterns, _visible_items
    tm,         \* TreeManager: base_path, selected_paths, tree (the QStandardItemModel)
    ui,         \* LLMExportApp widgets: include_filter / exclude_filter texts
    lastOp,     \* history: the handler that ran last
    deleted,    \* history: number of files removed from disk so far
    rt,         \* history: snapshot taken when a directory is toggled to Checked
    faults,     \* the file system: directories that cannot be listed, files that cannot be read
    raised,     \* the exception that escaped from the last handler, or "none"
    exported,   \* the text generate_export_content returned last
    refs,       \* the Python set objects a client of TreeManager shares with it
    call,       \* a call of a function of path_utils, selection_logic or config_manager
    sig,        \* the itemChanged signal: connections of the slot, slot runs, nested runs
    rebuilds    \* history: what each populate_tree call of the last handler was given

vars == <<sep, disk, cfg, fe, tm, ui, lastOp, deleted, rt, faults, raised, exported,
          refs, call, sig, rebuilds>>

----------------------------------------------------------------------------
(* Bounds *)

\* how many files the environment may delete from disk during a run
MaxDeletes == 1

\* how many set objects a client of TreeManager may create during a run
MaxObjects == 3

\* how many directories may become unlistable during a run
MaxFaults == 1

\* the longest path text handed to a function of path_utils
MaxLen == 3

\* the longest pattern handed to matches_pattern
MaxPatternLen == 4

\* calls of add_recent_folder / set_current_folder that name a folder the
\* list already holds
MaxRepeats == 1

----------------------------------------------------------------------------
(* Strings *)

EmptyStr == << >>

StartsWith(s, p) ==
    /\ Len(p) <= Len(s)
    /\ SubSeq(s, 1, Len(p)) = p

EndsWith(s, p) ==
    /\ Len(p) <= Len(s)
    /\ SubSeq(s, Len(s) - Len(p) + 1, Len(s)) = p

\* str.strip(): the model's texts hold only the blank as whitespace
RECURSIVE LStrip(_)
LStrip(s) == IF s # << >> /\ Head(s) = " " THEN LStrip(Tail(s)) ELSE s

RECURSIVE RStrip(_)
RStrip(s) ==
    IF s # << >> /\ s[Len(s)] = " " THEN RStrip(SubSeq(s, 1, Len(s) - 1)) ELSE s

Strip(s) == RStrip(LStrip(s))

\* str.split(c) for a one-character separator c: the list of the parts
RECURSIVE SplitChar(_, _, _)
SplitChar(s, c, cur) ==
    IF s = << >> THEN <<cur>>
    ELSE IF Head(s) = c THEN <<cur>> \o SplitChar(Tail(s), c, << >>)
    ELSE SplitChar(Tail(s), c, Append(cur, Head(s)))

\* str.split("**"): non-overlapping occurrences, scanned left to right
RECURSIVE SplitStars(_, _)
SplitStars(s, cur) ==
    IF s = << >> THEN <<cur>>
    ELSE IF Len(s) >= 2 /\ s[1] = "*" /\ s[2] = "*"
         THEN <<cur>> \o SplitStars(SubSeq(s, 3, Len(s)), << >>)
    ELSE SplitStars(Tail(s), Append(cur, Head(s)))

\* the elements of a list, as a set
Range(f) == { f[i] : i \in DOMAIN f }

\* the element of a one-element set
TheOne(S) == CHOOSE x \in S : TRUE

\* the characters of the model's names, paths and patterns, in code point order
Alphabet ==
    <<" ", "*", ",", ".", "/", "?", "B", "D", "\\",
      "a", "b", "c", "d", "o", "p", "s", "u", "y">>

\* the place of a character in the order of the code points
Ord(c) == CHOOSE i \in 1..Len(Alphabet) : Alphabet[i] = c

\* a < b for two Python str: by code point, a proper prefix first
RECURSIVE StrLess(_, _)
StrLess(a, b) ==
    IF b = << >> THEN FALSE
    ELSE IF a = << >> THEN TRUE
    ELSE IF Head(a) # Head(b) THEN Ord(Head(a)) < Ord(Head(b))
    ELSE StrLess(Tail(a), Tail(b))

\* str.lower(): the model's upper case letters are B and D
str_lower(s) ==
    [ i \in 1..Len(s) |-> IF s[i] = "B" THEN "b" ELSE IF s[i] = "D" THEN "d" ELSE s[i] ]

\* sorted(S) for a set of str
sorted(S) ==
    [ i \in 1..Cardinality(S) |->
        CHOOSE x \in S : Cardinality({ y \in S : StrLess(y, x) }) = i - 1 ]

----------------------------------------------------------------------------
(* path_utils.py *)

\* a normalize_path that replaces the first "/" only
normalize_path_first_only(path) ==
    [ i \in 1..Len(path) |->
        IF path[i] = "/" /\ \A j \in 1..(i - 1) : path[j] # "/" THEN "\\" ELSE path[i] ]

\* normalize_path: every "/" becomes a backslash, on every platform
normalize_path(path) ==
    [ i \in 1..Len(path) |-> IF path[i] = "/" THEN "\\" ELSE path[i] ]

\* the characters os.path treats as separators on the platform
OsSeps == IF sep = "/" THEN {"/"} ELSE {"/", "\\"}

\* os.path.join(a, b) for a relative b
os_path_join(a, b) ==
    IF a = << >> THEN b
    ELSE IF a[Len(a)] \in OsSeps THEN a \o b
    ELSE a \o <<sep>> \o b

\* the components of a path, split at the platform's separators
RECURSIVE PathComponents(_, _)
PathComponents(s, cur) ==
    IF s = << >> THEN <<cur>>
    ELSE IF Head(s) \in OsSeps THEN <<cur>> \o PathComponents(Tail(s), << >>)
    ELSE PathComponents(Tail(s), Append(cur, Head(s)))

\* os.path.normpath: drops empty and "." components, resolves "..",
\* joins with os.path.sep; the empty path becomes "."
RECURSIVE NormComponents(_, _)
NormComponents(comps, acc) ==
    IF comps = << >> THEN acc
    ELSE LET c == Head(comps) IN
         IF c = << >> \/ c = <<".">>
         THEN NormComponents(Tail(comps), acc)
         ELSE IF c = <<".", ".">> /\ acc # << >> /\ acc[Len(acc)] # <<".", ".">>
         THEN NormComponents(Tail(comps), SubSeq(acc, 1, Len(acc) - 1))
         ELSE NormComponents(Tail(comps), Append(acc, c))

RECURSIVE JoinComponents(_)
JoinComponents(comps) ==
    IF comps = << >> THEN << >>
    ELSE IF Len(comps) = 1 THEN comps[1]
    ELSE comps[1] \o <<sep>> \o JoinComponents(Tail(comps))

\* relative paths only: the paths handed to is_subpath are relative to the base
os_path_normpath(path) ==
    LET comps == NormComponents(PathComponents(path, << >>), << >>)
    IN IF comps = << >> THEN <<".">> ELSE JoinComponents(comps)

is_subpath(parent, child) ==
    LET p == os_path_normpath(parent)
        c == os_path_normpath(child)
    IN /\ StartsWith(c, p)
       /\ \/ Len(c) = Len(p)
          \/ c[Len(p) + 1] = sep

\* os.path.normcase as fnmatch.fnmatch applies it: identity on POSIX, and
\* "/" to backslash on Windows (the model's names are lower case already)
os_path_normcase(s) ==
    IF sep = "/" THEN s
    ELSE [ i \in 1..Len(s) |-> IF s[i] = "/" THEN "\\" ELSE s[i] ]

\* fnmatch.fnmatchcase for the wildcards * and ? (no pattern of the model
\* holds a bracket expression)
RECURSIVE GlobMatch(_, _)
GlobMatch(s, p) ==
    IF p = << >> THEN s = << >>
    ELSE IF Head(p) = "*"
         THEN \/ GlobMatch(s, Tail(p))
              \/ s # << >> /\ GlobMatch(Tail(s), p)
    ELSE IF Head(p) = "?"
         THEN s # << >> /\ GlobMatch(Tail(s), Tail(p))
    ELSE s # << >> /\ Head(s) = Head(p) /\ GlobMatch(Tail(s), Tail(p))

fnmatch(name, pat) == GlobMatch(os_path_normcase(name), os_path_normcase(pat))

\* a matches_pattern that forgets the text after "**"
matches_pattern_prefix_only(path, pattern) ==
    LET norm_path == normalize_path(path)
        norm_pattern == normalize_path(pattern)
        parts == SplitStars(norm_pattern, << >>)
    IN IF Len(parts) = 2
       THEN StartsWith(norm_path, parts[1])
       ELSE fnmatch(norm_path, norm_pattern)

matches_pattern(path, pattern) ==
    LET norm_path == normalize_path(path)
        norm_pattern == normalize_path(pattern)
        parts == SplitStars(norm_pattern, << >>)
    IN IF Len(parts) = 2
       THEN StartsWith(norm_path, parts[1]) /\ EndsWith(norm_path, parts[2])
       ELSE fnmatch(norm_path, norm_pattern)

----------------------------------------------------------------------------
(* The file system *)

A_PY == <<"a", ".", "p", "y">>
B_PY == <<"b", ".", "p", "y">>
SUB  == <<"s", "u", "b">>
DOC  == <<"d", "o", "c">>

\* the base folders the user can open (absolute paths)
ProjFolder == <<"/", "p", "r", "o", "j">>
LibFolder  == <<"/", "l", "i", "b">>
Folders == {ProjFolder, LibFolder}

\* /proj holds a.py, sub/b.py and the empty directory doc; /lib is empty.
\* An entry is named by its folder and the names of its path below the folder.
InitialDisk ==
    { [folder |-> ProjFolder, segs |-> <<A_PY>>,      isDir |-> FALSE],
      [folder |-> ProjFolder, segs |-> <<SUB>>,       isDir |-> TRUE],
      [folder |-> ProjFolder, segs |-> <<SUB, B_PY>>, isDir |-> FALSE],
      [folder |-> ProjFolder, segs |-> <<DOC>>,       isDir |-> TRUE] }

\* os.listdir of the directory segs below folder
ListDir(folder, segs) ==
    { e \in disk : /\ e.folder = folder
                   /\ Len(e.segs) = Len(segs) + 1
                   /\ SubSeq(e.segs, 1, Len(segs)) = segs }

\* A fault names a directory (segs = << >> is the folder itself) whose
\* listing fails, or a file whose reading fails, by the exception raised:
\*   PermissionError    the directory may not be listed
\*   FileNotFoundError  the directory is gone when it is listed: the open
\*                      folder was removed, or a subdirectory vanished
\*                      after os.path.isdir answered for it
\*   OSError            the file cannot be opened for reading
Fault(folder, segs, kind) == [folder |-> folder, segs |-> segs, kind |-> kind]

\* the exception os.listdir raises for the directory, or "none"
listdir_error(folder, segs) ==
    IF Fault(folder, segs, "PermissionError") \in faults THEN "PermissionError"
    ELSE IF Fault(folder, segs, "FileNotFoundError") \in faults THEN "FileNotFoundError"
    ELSE "none"

\* os.path.isdir of a folder the user names
os_path_isdir(folder) == Fault(folder, << >>, "FileNotFoundError") \notin faults

\* the files os.walk(folder) yields, at every depth; os.walk skips, without
\* an exception, every directory whose listing fails
WalkFiles(folder) ==
    { e \in disk : /\ e.folder = folder
                   /\ ~e.isDir
                   /\ \A k \in 0..(Len(e.segs) - 1) :
                         listdir_error(folder, SubSeq(e.segs, 1, k)) = "none" }

\* the key _add_directory sorts a listing by: (not isdir, name.lower())
\* a key that compares the names as they are, upper case first
ListKeyLess_case_sensitive(x, y) ==
    \/ x.isDir /\ ~y.isDir
    \/ /\ x.isDir = y.isDir
       /\ StrLess(x.segs[Len(x.segs)], y.segs[Len(y.segs)])

ListKeyLess(x, y) ==
    \/ x.isDir /\ ~y.isDir
    \/ /\ x.isDir = y.isDir
       /\ StrLess(str_lower(x.segs[Len(x.segs)]), str_lower(y.segs[Len(y.segs)]))

\* sorted(os.listdir(dir_path), key=...): the entries in the order of the key
SortedListDir(folder, segs) ==
    LET S == ListDir(folder, segs)
    IN [ i \in 1..Cardinality(S) |->
           CHOOSE x \in S : Cardinality({ y \in S : ListKeyLess(y, x) }) = i - 1 ]

\* os.path.relpath(full_path, base) of an entry: its names joined by os.path.sep
os_path_relpath(e) == JoinComponents(e.segs)

----------------------------------------------------------------------------
(* filter_engine.py *)

\* the texts the user types into the include and the exclude field
IncludeTexts == { EmptyStr, <<"*", ".", "p", "y">> }
ExcludeTexts == { EmptyStr, <<"*", "*", "/", "b", ".", "p", "y">> }

IsBlank(p) == Strip(p) = << >>
NotBlank(p) == ~IsBlank(p)

_parse_patterns(pattern_str) ==
    IF pattern_str = << >> \/ IsBlank(pattern_str) THEN << >>
    ELSE LET kept == SelectSeq(SplitChar(pattern_str, ",", << >>), NotBlank)
         IN [ i \in 1..Len(kept) |-> normalize_path(Strip(kept[i])) ]

MatchesAny(path, patterns) ==
    \E i \in 1..Len(patterns) : matches_pattern(path, patterns[i])

_collect_all_files(base) ==
    { normalize_path(os_path_relpath(e)) : e \in WalkFiles(base) }

_collect_matching_files(base, patterns) ==
    { p \in { normalize_path(os_path_relpath(e)) : e \in WalkFiles(base) } :
        MatchesAny(p, patterns) }

_exclude_matching_files(items, patterns) ==
    items \ { item \in items : MatchesAny(item, patterns) }

\* a variant in which a file that matches an include pattern stays, whatever
\* the exclude patterns say
_refresh_cache_include_wins(f) ==
    IF f.base_path = << >> THEN {}
    ELSE IF f.include_patterns # << >>
    THEN _collect_matching_files(f.base_path, f.include_patterns)
    ELSE IF f.exclude_patterns # << >>
    THEN _exclude_matching_files(_collect_all_files(f.base_path), f.exclude_patterns)
    ELSE _collect_all_files(f.base_path)

\* the value of _visible_items after _refresh_cache
_refresh_cache(f) ==
    IF f.base_path = << >> THEN {}
    ELSE LET included == IF f.include_patterns = << >>
                         THEN _collect_all_files(f.base_path)
                         ELSE _collect_matching_files(f.base_path, f.include_patterns)
         IN IF f.exclude_patterns # << >>
            THEN _exclude_matching_files(included, f.exclude_patterns)
            ELSE included

Refreshed(f) == [f EXCEPT !.visible_items = _refresh_cache(f)]

FE_set_base_path(f, path) == Refreshed([f EXCEPT !.base_path = path])

\* a variant that stores the patterns and keeps the cache as it was
set_include_patterns_keeps_cache(f, text) ==
    [f EXCEPT !.include_patterns = _parse_patterns(text)]

set_include_patterns(f, text) ==
    Refreshed([f EXCEPT !.include_patterns = _parse_patterns(text)])

set_exclude_patterns(f, text) ==
    Refreshed([f EXCEPT !.exclude_patterns = _parse_patterns(text)])

\* a variant without the early return for the case of no patterns
is_visible_by_cache_only(f, path) ==
    LET norm_path == normalize_path(path)
    IN \/ norm_path \in f.visible_items
       \/ \E visible_item \in f.visible_items : is_subpath(norm_path, visible_item)

is_visible(f, path) ==
    IF f.include_patterns = << >> /\ f.exclude_patterns = << >> THEN TRUE
    ELSE LET norm_path == normalize_path(path)
         IN \/ norm_path \in f.visible_items
            \/ \E visible_item \in f.visible_items : is_subpath(norm_path, visible_item)

----------------------------------------------------------------------------
(* tree_manager.py *)

Checked   == "Checked"
Unchecked == "Unchecked"
Partial   == "PartiallyChecked"

\* the relative path of the base item, and the parent recorded for it
RootPath == EmptyStr
NoParent == <<"<none>">>

\* tm.tree maps the relative path stored in an item (Qt.UserRole) to the
\* item: its check state, the path of its parent item, and whether the
\* entry was a directory when the item was built
Children(tree, p) == { q \in DOMAIN tree : tree[q].parent = p }
hasChildren(tree, p) == Children(tree, p) # {}

RECURSIVE Descendants(_, _)
Descendants(tree, p) ==
    UNION { {c} \cup Descendants(tree, c) : c \in Children(tree, p) }

TM_set_base_path(t, path) == [t EXCEPT !.base_path = path]

set_selected_paths(t, paths) == [t EXCEPT !.selected_paths = paths]

get_selected_paths(t) == t.selected_paths

\* a _check_children_visibility that never finds a visible child
_check_children_visibility_finds_none(f, folder, segs, rel_path) == FALSE

\* a failed listing, of either kind, is caught in the call it happens in
RECURSIVE _check_children_visibility(_, _, _, _)
_check_children_visibility(f, folder, segs, rel_path) ==
    /\ listdir_error(folder, segs) = "none"
    /\ \E item \in ListDir(folder, segs) :
          LET item_rel_path == os_path_join(rel_path, item.segs[Len(item.segs)])
          IN \/ is_visible(f, item_rel_path)
             \/ /\ item.isDir
                /\ _check_children_visibility(f, folder, item.segs, item_rel_path)

\* The result of _add_directory for the directory segs: the items appended
\* below the item of rel_path, and the exception that leaves the call
\* ("none" when it returns).  PermissionError is caught in the call whose
\* listing raised it; any other exception ends the loop, and with it every
\* enclosing call, and the items appended before it stay in the model.
RECURSIVE _add_directory(_, _, _, _, _)
_add_directory(f, selected, folder, segs, rel_path) ==
    LET \* one pass of the loop body
        Pass(item) ==
            LET item_name == item.segs[Len(item.segs)]
                item_rel_path == IF rel_path # << >>
                                 THEN os_path_join(rel_path, item_name)
                                 ELSE item_name
                visible == is_visible(f, item_rel_path)
                has_visible_children ==
                    /\ item.isDir
                    /\ ~visible
                    /\ _check_children_visibility(f, folder, item.segs, item_rel_path)
                tree_item == [path   |-> item_rel_path,
                              parent |-> rel_path,
                              row    |-> 0,
                              isDir  |-> item.isDir,
                              check  |-> IF item_rel_path \in selected
                                         THEN Checked ELSE Unchecked]
            IN IF ~visible /\ ~has_visible_children
               THEN [items |-> {}, raised |-> "none"]
               ELSE IF ~item.isDir
               THEN [items |-> {tree_item}, raised |-> "none"]
               ELSE TheOne({ [items  |-> {tree_item} \cup below.items,
                              raised |-> below.raised]
                             : below \in { _add_directory(f, selected, folder,
                                                          item.segs, item_rel_path) } })
        \* the passes in the order of the listing, up to the first that raises
        \* appendRow: the item of a pass gets the row after the items
        \* appended by the passes before it
        Appended(passes, p) ==
            { IF n.parent = rel_path
              THEN [n EXCEPT !.row = Cardinality({ q \in passes : q.i < p.i
                                                               /\ q.result.items # {} })]
              ELSE n
              : n \in p.result.items }
        Loop(passes) ==
            LET failed == { p \in passes : p.result.raised # "none" }
                first == CHOOSE p \in failed : \A q \in failed : p.i <= q.i
            IN IF failed = {}
               THEN [items  |-> UNION { Appended(passes, p) : p \in passes },
                     raised |-> "none"]
               ELSE [items  |-> UNION { Appended(passes, p)
                                        : p \in { q \in passes : q.i <= first.i } },
                     raised |-> first.result.raised]
    IN IF listdir_error(folder, segs) = "PermissionError"
       THEN [items |-> {}, raised |-> "none"]
       ELSE IF listdir_error(folder, segs) # "none"
       THEN [items |-> {}, raised |-> listdir_error(folder, segs)]
       ELSE TheOne({ Loop(passes)
                     : passes \in
                         { { [i |-> i, result |-> Pass(items[i])] : i \in 1..Len(items) }
                           : items \in { SortedListDir(folder, segs) } } })

ItemOf(items, p) == CHOOSE n \in items : n.path = p

\* the model built from the items of a walk
TreeOf(items) ==
    [ p \in { n.path : n \in items } |->
        [check  |-> ItemOf(items, p).check,
         parent |-> ItemOf(items, p).parent,
         row    |-> ItemOf(items, p).row,
         isDir  |-> ItemOf(items, p).isDir] ]

\* a populate_tree that shows every item it builds as Checked
populate_tree_checks_all(t, f) ==
    IF t.base_path = << >>
    THEN [tm |-> [t EXCEPT !.tree = << >>], raised |-> "none"]
    ELSE LET base_item == [path |-> RootPath, parent |-> NoParent, row |-> 0,
                           isDir |-> TRUE, check |-> Checked]
             walk == _add_directory(f, t.selected_paths, t.base_path, << >>, RootPath)
         IN [tm     |-> [t EXCEPT !.tree =
                            TreeOf({base_item}
                                   \cup { [n EXCEPT !.check = Checked] : n \in walk.items })],
             raised |-> walk.raised]

\* populate_tree: the TreeManager it leaves, and the exception that leaves
\* it ("none" when it returns)
populate_tree(t, f) ==
    IF t.base_path = << >>
    THEN [tm |-> [t EXCEPT !.tree = << >>], raised |-> "none"]
    ELSE LET base_item == [path   |-> RootPath,
                           parent |-> NoParent,
                           row    |-> 0,
                           isDir  |-> TRUE,
                           check  |-> IF RootPath \in t.selected_paths
                                      THEN Checked ELSE Unchecked]
             walk == _add_directory(f, t.selected_paths, t.base_path, << >>, RootPath)
         IN [tm     |-> [t EXCEPT !.tree = TreeOf({base_item} \cup walk.items)],
             raised |-> walk.raised]

\* the items whose check state _set_check_state_to_children sets
RECURSIVE _set_check_state_to_children(_, _, _)
_set_check_state_to_children(f, tree, parent_item) ==
    UNION { (IF is_visible(f, child) THEN {child} ELSE {})
            \cup (IF hasChildren(tree, child)
                  THEN _set_check_state_to_children(f, tree, child)
                  ELSE {})
            : child \in Children(tree, parent_item) }

\* a files-only variant: the item's own path is not stored
RECURSIVE _add_path_and_children_children_only(_, _, _)
_add_path_and_children_children_only(f, tree, parent_path) ==
    UNION { IF is_visible(f, child)
            THEN (IF tree[child].isDir THEN {} ELSE {child})
                 \cup (IF hasChildren(tree, child)
                       THEN _add_path_and_children_children_only(f, tree, child)
                       ELSE {})
            ELSE {}
            : child \in Children(tree, parent_path) }

\* a variant that forgets the recursion below the item's children
_add_path_and_children_shallow(f, tree, parent_path) ==
    {parent_path}
    \cup { child \in Children(tree, parent_path) : is_visible(f, child) }

\* the paths _add_path_and_children adds to selected_paths
RECURSIVE _add_path_and_children(_, _, _)
_add_path_and_children(f, tree, parent_path) ==
    {parent_path}
    \cup UNION { IF is_visible(f, child)
                 THEN {child} \cup (IF hasChildren(tree, child)
                                    THEN _add_path_and_children(f, tree, child)
                                    ELSE {})
                 ELSE {}
                 : child \in Children(tree, parent_path) }

\* a variant that forgets the recursion below the item's children
_remove_path_and_children_shallow(tree, parent_path) ==
    {parent_path} \cup Children(tree, parent_path)

\* the paths _remove_path_and_children discards from selected_paths
RECURSIVE _remove_path_and_children(_, _)
_remove_path_and_children(tree, parent_path) ==
    {parent_path}
    \cup UNION { {child} \cup (IF hasChildren(tree, child)
                               THEN _remove_path_and_children(tree, child)
                               ELSE {})
                 : child \in Children(tree, parent_path) }

\* TreeManager.handle_item_changed for the item of path whose check box
\* now shows check_state
TM_handle_item_changed(t, f, path, check_state) ==
    LET tree0 == [t.tree EXCEPT ![path].check = check_state]
        set == IF hasChildren(tree0, path)
               THEN _set_check_state_to_children(f, tree0, path)
               ELSE {}
        tree1 == [ q \in DOMAIN tree0 |->
                     IF q \in set THEN [tree0[q] EXCEPT !.check = check_state]
                     ELSE tree0[q] ]
    IN [t EXCEPT
          !.tree = tree1,
          !.selected_paths =
              IF check_state = Checked
              THEN t.selected_paths \cup _add_path_and_children(f, tree0, path)
              ELSE t.selected_paths \ _remove_path_and_children(tree0, path)]

\* a variant that unchecks the items and keeps the set
TM_reset_selection_keeps_set(t) ==
    [t EXCEPT !.tree = [ q \in DOMAIN t.tree |-> [t.tree[q] EXCEPT !.check = Unchecked] ]]

\* TreeManager.reset_selection: the set is cleared and uncheck_all visits
\* every item.  An item that was Checked emits itemChanged; the slot then
\* unchecks below it and discards from the already empty set, so the net
\* result is the empty set and every item Unchecked.
TM_reset_selection(t) ==
    [t EXCEPT !.selected_paths = {},
              !.tree = [ q \in DOMAIN t.tree |-> [t.tree[q] EXCEPT !.check = Unchecked] ]]

----------------------------------------------------------------------------
(* config_manager.py *)

\* the length add_recent_folder cuts recent_folders to
RecentLimit == 10

\* the index of the first element of list equal to x (list.index)
IndexOf(list, x) == CHOOSE i \in 1..Len(list) : list[i] = x /\ \A j \in 1..(i - 1) : list[j] # x

\* list.pop(index)
Pop(list, index) == SubSeq(list, 1, index - 1) \o SubSeq(list, index + 1, Len(list))

\* os.path.abspath of a path that is absolute and has no ".", "..",
\* doubled or trailing separator: POSIX returns it as it is (a backslash
\* is a character of a name there), Windows rewrites every "/" to a
\* backslash (the drive of the current directory, which Windows puts in
\* front of each such path alike, is left out)
os_path_abspath(path) ==
    [ i \in DOMAIN path |-> IF sep = "\\" /\ path[i] = "/" THEN "\\" ELSE path[i] ]

\* an add_recent_folder that looks for the path as it is spelled
add_recent_folder_compares_spelling(c, folder_path) ==
    LET absolute == os_path_abspath(folder_path)
        kept == IF absolute \in Range(c.recent_folders)
                THEN Pop(c.recent_folders, IndexOf(c.recent_folders, absolute))
                ELSE c.recent_folders
        inserted == <<absolute>> \o kept
    IN [c EXCEPT !.recent_folders =
            SubSeq(inserted, 1, IF Len(inserted) < RecentLimit THEN Len(inserted) ELSE RecentLimit)]

add_recent_folder(c, folder_path) ==
    LET absolute == os_path_abspath(folder_path)
        normalized_path == normalize_path(absolute)
        normalized_recent_folders ==
            [ i \in 1..Len(c.recent_folders) |-> normalize_path(c.recent_folders[i]) ]
        kept == IF normalized_path \in Range(normalized_recent_folders)
                THEN Pop(c.recent_folders, IndexOf(normalized_recent_folders, normalized_path))
                ELSE c.recent_folders
        inserted == <<absolute>> \o kept
    IN [c EXCEPT !.recent_folders =
            SubSeq(inserted, 1, IF Len(inserted) < RecentLimit THEN Len(inserted) ELSE RecentLimit)]

set_current_folder(c, folder_path) ==
    add_recent_folder([c EXCEPT !.current_folder = folder_path], folder_path)

save_selection(c, selected_paths) ==
    IF c.current_folder # << >>
    THEN [c EXCEPT !.selections[c.current_folder] = selected_paths]
    ELSE c

\* a folder without an entry reads as the empty selection
get_selection(c, folder_path) == c.selections[folder_path]

set_folder_filters(c, folder_path, include_patterns, exclude_patterns) ==
    [c EXCEPT !.folder_filters[folder_path] =
        [include_patterns |-> include_patterns, exclude_patterns |-> exclude_patterns]]

\* a folder without an entry reads as the pair of empty strings
get_folder_filters(c, folder_path) == c.folder_filters[folder_path]

----------------------------------------------------------------------------
(* export_generator.py *)

\* the index of the last separator of a path, 0 when it has none
LastSep(path) ==
    LET at == { i \in 1..Len(path) : path[i] \in OsSeps }
    IN IF at = {} THEN 0 ELSE CHOOSE i \in at : \A j \in at : j <= i

RECURSIVE RStripSeps(_)
RStripSeps(s) ==
    IF s # << >> /\ s[Len(s)] \in OsSeps THEN RStripSeps(SubSeq(s, 1, Len(s) - 1)) ELSE s

os_path_basename(path) == SubSeq(path, LastSep(path) + 1, Len(path))

\* the head of the split, without its trailing separators unless it holds
\* nothing else
os_path_dirname(path) ==
    LET head == SubSeq(path, 1, LastSep(path))
    IN IF RStripSeps(head) = << >> THEN head ELSE RStripSeps(head)

\* os.path.isdir(os.path.join(base_folder, rel_path)): the empty path joins
\* to the folder itself
IsDirAt(base_folder, rel_path) ==
    LET segs == NormComponents(PathComponents(rel_path, << >>), << >>)
    IN IF segs = << >> THEN os_path_isdir(base_folder)
       ELSE \E e \in disk : e.folder = base_folder /\ e.segs = segs /\ e.isDir

\* open(full_path).read(): the name of the exception it raises, or "none"
read_error(base_folder, rel_path) ==
    LET segs == NormComponents(PathComponents(rel_path, << >>), << >>)
    IN IF ~\E e \in disk : e.folder = base_folder /\ e.segs = segs
       THEN "FileNotFoundError"
       ELSE IF Fault(base_folder, segs, "OSError") \in faults THEN "OSError"
       ELSE "none"

\* the four-character pieces a line of the directory structure starts with
\* (the box-drawing characters are written in ASCII)
INDENT == "    "
PIPE   == "|   "
LAST   == "+-- "
TEE    == "|-- "

\* paths_by_level[level]: the selected paths of that many components, in
\* the order of sorted(selected_paths)
paths_by_level(selected_paths, level) ==
    LET HasLevel(path) == Len(SplitChar(path, sep, << >>)) = level
    IN SelectSeq(sorted(selected_paths), HasLevel)

\* the sort key of _build_tree_structure: directories first, then by
\* basename (the model's names are lower case); list.sort is stable, so
\* equal keys keep the order of sorted(selected_paths)
ItemKeyLess(base_folder, x, y) ==
    LET xf == ~IsDirAt(base_folder, x)
        yf == ~IsDirAt(base_folder, y)
    IN \/ ~xf /\ yf
       \/ /\ xf = yf
          /\ \/ StrLess(os_path_basename(x), os_path_basename(y))
             \/ /\ os_path_basename(x) = os_path_basename(y)
                /\ StrLess(x, y)

\* the concatenation of the first n lists of a list of lists
RECURSIVE Concat(_, _)
Concat(lists, n) == IF n = 0 THEN << >> ELSE Concat(lists, n - 1) \o lists[n]

\* the lines _build_tree_structure appends for the children of parent_path:
\* for each item its own line and then, for a directory, the lines of the
\* level below it
RECURSIVE _build_tree_structure(_, _, _, _, _)
_build_tree_structure(selected_paths, base_folder, parent_path, level, prefix) ==
    LET IsChild(path) == os_path_dirname(path) = parent_path
        Sorted(found) ==
            [ i \in 1..Cardinality(found) |->
                CHOOSE x \in found :
                    Cardinality({ y \in found : ItemKeyLess(base_folder, y, x) }) = i - 1 ]
        Lines(items, i) ==
            LET item == items[i]
                is_last == i = Len(items)
                item_prefix == Append(prefix, IF is_last THEN LAST ELSE TEE)
                is_dir == IsDirAt(base_folder, item)
                child_prefix == Append(prefix, IF is_last THEN INDENT ELSE PIPE)
            IN << [prefix |-> item_prefix,
                   name   |-> os_path_basename(item),
                   slash  |-> is_dir] >>
               \o (IF is_dir
                   THEN _build_tree_structure(selected_paths, base_folder, item,
                                              level + 1, child_prefix)
                   ELSE << >>)
    IN IF paths_by_level(selected_paths, level) = << >> THEN << >>
       ELSE TheOne({ Concat(lines, Len(lines))
                     : lines \in
                         { [ i \in 1..Len(current_level_items) |->
                               Lines(current_level_items, i) ]
                           : current_level_items \in
                               { Sorted(found) : found \in
                                   { Range(SelectSeq(paths_by_level(selected_paths, level),
                                                     IsChild)) } } } })

\* the lines of the directory structure: the base folder, then the tree
_generate_directory_structure(base_folder, selected_paths) ==
    << [prefix |-> <<LAST>>, name |-> os_path_basename(base_folder), slash |-> TRUE] >>
    \o _build_tree_structure(selected_paths, base_folder, EmptyStr, 1, <<INDENT>>)

\* what a block holds below its header: the text read, or the marker
FileBody(base_folder, rel_path) ==
    IF read_error(base_folder, rel_path) = "none"
    THEN <<"text of", os_path_join(base_folder, rel_path)>>
    ELSE <<"[", "Error al leer el archivo: ", read_error(base_folder, rel_path), "]">>

\* a variant that writes a block for a directory as well
_generate_file_contents_with_directories(base_folder, selected_paths) ==
    LET paths == sorted(selected_paths)
    IN [ i \in 1..Len(paths) |->
           [header |-> <<"File: ", paths[i]>>, body |-> FileBody(base_folder, paths[i])] ]

\* a variant without the except clause: the first failed read ends the loop
_generate_file_contents_stops_at_error(base_folder, selected_paths) ==
    LET IsFile(rel_path) == ~IsDirAt(base_folder, rel_path)
        paths == SelectSeq(sorted(selected_paths), IsFile)
        failed == { i \in 1..Len(paths) : read_error(base_folder, paths[i]) # "none" }
        last == IF failed = {} THEN Len(paths)
                ELSE (CHOOSE i \in failed : \A j \in failed : i <= j) - 1
    IN [ i \in 1..last |->
           [header |-> <<"File: ", paths[i]>>, body |-> FileBody(base_folder, paths[i])] ]

\* the blocks of the content section, one per path that is not a directory
_generate_file_contents(base_folder, selected_paths) ==
    LET IsFile(rel_path) == ~IsDirAt(base_folder, rel_path)
        paths == SelectSeq(sorted(selected_paths), IsFile)
    IN [ i \in 1..Len(paths) |->
           [header |-> <<"File: ", paths[i]>>, body |-> FileBody(base_folder, paths[i])] ]

generate_export_content(base_folder, selected_paths) ==
    [structure |-> _generate_directory_structure(base_folder, selected_paths),
     contents  |-> _generate_file_contents(base_folder, selected_paths)]

----------------------------------------------------------------------------
(* main_window.py: the handlers, as functions of the application state     *)
(* s = [cfg, fe, tm, ui, raised].  An exception that leaves a slot ends    *)
(* the handler where it was raised; s.raised names it.                     *)

apply_filters(s) ==
    LET include_patterns == s.ui.include_filter
        exclude_patterns == s.ui.exclude_filter
    IN IF s.cfg.current_folder = << >> THEN s
       ELSE LET c1 == set_folder_filters(s.cfg, s.cfg.current_folder,
                                         include_patterns, exclude_patterns)
                f1 == set_include_patterns(s.fe, include_patterns)
                f2 == set_exclude_patterns(f1, exclude_patterns)
            IN TheOne({ [s EXCEPT !.cfg = c1,
                                  !.fe = built.fe,
                                  !.tm = built.tree.tm,
                                  !.raised = built.tree.raised]
                        : built \in { [fe |-> fe2, tree |-> populate_tree(s.tm, fe2)]
                                      : fe2 \in {f2} } })

\* QLineEdit.setText / typing: textChanged fires, and apply_filters runs,
\* only when the text differs from the one shown
include_filter_setText(s, text) ==
    IF text = s.ui.include_filter THEN s
    ELSE apply_filters([s EXCEPT !.ui.include_filter = text])

\* a setText of the exclude field with the signals of the field blocked:
\* the text changes and apply_filters does not run
exclude_filter_setText_signals_blocked(s, text) ==
    [s EXCEPT !.ui.exclude_filter = text]

exclude_filter_setText(s, text) ==
    IF text = s.ui.exclude_filter THEN s
    ELSE apply_filters([s EXCEPT !.ui.exclude_filter = text])

open_folder(s, folder_path) ==
    LET s1 == [s EXCEPT !.cfg = set_current_folder(s.cfg, folder_path)]
        selected_paths == get_selection(s1.cfg, folder_path)
        s2 == [s1 EXCEPT !.tm = TM_set_base_path(
                                    set_selected_paths(s1.tm, selected_paths),
                                    folder_path)]
        folder_filters == get_folder_filters(s2.cfg, folder_path)
        \* the statements after the two setText calls
        Configure(s4) ==
            LET f1 == FE_set_base_path(s4.fe, folder_path)
                f2 == set_include_patterns(f1, s4.ui.include_filter)
                f3 == set_exclude_patterns(f2, s4.ui.exclude_filter)
            IN TheOne({ [s4 EXCEPT !.fe = built.fe,
                                   !.tm = built.tree.tm,
                                   !.raised = built.tree.raised]
                        : built \in { [fe |-> fe3, tree |-> populate_tree(s4.tm, fe3)]
                                      : fe3 \in {f3} } })
    IN IF ~os_path_isdir(folder_path) THEN s
       ELSE TheOne({ IF s4.raised # "none" THEN s4 ELSE Configure(s4)
                     : s4 \in
                         { IF s3.raised # "none" THEN s3
                           ELSE exclude_filter_setText(s3, folder_filters.exclude_patterns)
                           : s3 \in { include_filter_setText(
                                          s2, folder_filters.include_patterns) } } })

\* a handle_item_changed that propagates the click and leaves the saved
\* selection as it was
handle_item_changed_without_save(s, path) ==
    LET check_state == IF s.tm.tree[path].check = Checked THEN Unchecked ELSE Checked
    IN [s EXCEPT !.tm = TM_handle_item_changed(s.tm, s.fe, path, check_state)]

\* LLMExportApp.handle_item_changed, run for the item whose check box the
\* user clicked: the click flips the box, the slot propagates and saves
handle_item_changed(s, path) ==
    LET check_state == IF s.tm.tree[path].check = Checked THEN Unchecked ELSE Checked
        t1 == TM_handle_item_changed(s.tm, s.fe, path, check_state)
    IN [s EXCEPT !.tm = t1,
                 !.cfg = save_selection(s.cfg, get_selected_paths(t1))]

reset_selection(s) ==
    LET t1 == TM_reset_selection(s.tm)
    IN [s EXCEPT !.tm = t1,
                 !.cfg = save_selection(s.cfg, get_selected_paths(t1))]

----------------------------------------------------------------------------
(* main_window.py: the calls of populate_tree a handler makes.  setText    *)
(* emits textChanged from inside open_folder, so one open_folder can call  *)
(* populate_tree up to three times: from apply_filters for the include     *)
(* field, from apply_filters for the exclude field, and at its own end.    *)

\* what a call of tree_manager.populate_tree() finds: the folder of the
\* tree, the filter engine behind is_visible_fn, and the filters the
\* configuration holds for the folder of the tree at that moment
populate_tree_call(c, f, t) ==
    [base_path |-> t.base_path,
     fe        |-> [base_path        |-> f.base_path,
                    include_patterns |-> f.include_patterns,
                    exclude_patterns |-> f.exclude_patterns],
     saved     |-> IF t.base_path \in DOMAIN c.folder_filters
                   THEN get_folder_filters(c, t.base_path)
                   ELSE [include_patterns |-> EmptyStr, exclude_patterns |-> EmptyStr]]

\* apply_filters: no call without a current folder, else one call after
\* the filters were saved and handed to the filter engine
apply_filters_rebuilds(s) ==
    LET include_patterns == s.ui.include_filter
        exclude_patterns == s.ui.exclude_filter
    IN IF s.cfg.current_folder = << >> THEN << >>
       ELSE << populate_tree_call(
                   set_folder_filters(s.cfg, s.cfg.current_folder,
                                      include_patterns, exclude_patterns),
                   set_exclude_patterns(set_include_patterns(s.fe, include_patterns),
                                        exclude_patterns),
                   s.tm) >>

include_filter_setText_rebuilds(s, text) ==
    IF text = s.ui.include_filter THEN << >>
    ELSE apply_filters_rebuilds([s EXCEPT !.ui.include_filter = text])

exclude_filter_setText_rebuilds(s, text) ==
    IF text = s.ui.exclude_filter THEN << >>
    ELSE apply_filters_rebuilds([s EXCEPT !.ui.exclude_filter = text])

\* open_folder, statement by statement: the calls of populate_tree in the
\* order they are made
open_folder_rebuilds(s, folder_path) ==
    LET s1 == [s EXCEPT !.cfg = set_current_folder(s.cfg, folder_path)]
        selected_paths == get_selection(s1.cfg, folder_path)
        s2 == [s1 EXCEPT !.tm = TM_set_base_path(
                                    set_selected_paths(s1.tm, selected_paths),
                                    folder_path)]
        folder_filters == get_folder_filters(s2.cfg, folder_path)
        \* the call that ends open_folder
        Configured(s4) ==
            LET f1 == FE_set_base_path(s4.fe, folder_path)
                f2 == set_include_patterns(f1, s4.ui.include_filter)
                f3 == set_exclude_patterns(f2, s4.ui.exclude_filter)
            IN << populate_tree_call(s4.cfg, f3, s4.tm) >>
        AfterInclude(s3) ==
            IF s3.raised # "none" THEN << >>
            ELSE exclude_filter_setText_rebuilds(s3, folder_filters.exclude_patterns)
                 \o TheOne({ IF s4.raised # "none" THEN << >> ELSE Configured(s4)
                             : s4 \in { exclude_filter_setText(
                                            s3, folder_filters.exclude_patterns) } })
    IN IF ~os_path_isdir(folder_path) THEN << >>
       ELSE include_filter_setText_rebuilds(s2, folder_filters.include_patterns)
            \o TheOne({ AfterInclude(s3)
                        : s3 \in { include_filter_setText(
                                       s2, folder_filters.include_patterns) } })

----------------------------------------------------------------------------
(* The itemChanged signal of the tree model and its slot *)

\* A world is the part of the application a check box event works on:
\* [tm, cfg, sig].  sig counts the connections of
\* LLMExportApp.handle_item_changed to tree_model.itemChanged, the runs of
\* the slot that are on the stack (running), and for the last event the
\* runs of the slot and the runs entered while another one was running.

\* the children of an item in the order of their rows
ChildrenInOrder(tree, p) ==
    [ i \in 1..Cardinality(Children(tree, p)) |->
        CHOOSE c \in Children(tree, p) : tree[c].row = i - 1 ]

Step(op, item, state) == [op |-> op, item |-> item, state |-> state]

\* a slot that stays connected while it runs
disconnect_skipped(g) == g

\* tree_model.itemChanged.disconnect(self.handle_item_changed)
disconnect(g) == [g EXCEPT !.connections = @ - 1]

\* tree_model.itemChanged.connect(self.handle_item_changed)
connect(g) == [g EXCEPT !.connections = @ + 1]

\* The calls an event makes, run to completion.  todo is the list of the
\* calls still to make, the next one first:
\*   setCheckState  QStandardItem.setCheckState: a change of the state
\*                  emits itemChanged, which runs the slot once per
\*                  connection before the call returns
\*   slot           LLMExportApp.handle_item_changed, up to the call of
\*                  TreeManager.handle_item_changed
\*   children       TreeManager._set_check_state_to_children
\*   paths          _add_path_and_children / _remove_path_and_children
\*   return         the rest of the slot: save_selection, connect
\*   clear, uncheck_all, save   TreeManager.reset_selection and the save
\*                  of LLMExportApp.reset_selection
RECURSIVE Run(_, _, _)
Run(f, w, todo) ==
    IF todo = << >> THEN w
    ELSE LET step == Head(todo)
             rest == Tail(todo)
             tree == w.tm.tree
             kids == ChildrenInOrder(tree, step.item)
         IN CASE step.op = "setCheckState" ->
                   IF tree[step.item].check = step.state
                   THEN Run(f, w, rest)
                   ELSE Run(f, [w EXCEPT !.tm.tree[step.item].check = step.state],
                            [ i \in 1..w.sig.connections |->
                                Step("slot", step.item, step.state) ] \o rest)
              [] step.op = "slot" ->
                   Run(f,
                       [w EXCEPT !.sig =
                           disconnect([@ EXCEPT
                               !.runs = @ + 1,
                               !.nested = @ + (IF w.sig.running > 0 THEN 1 ELSE 0),
                               !.running = @ + 1])],
                       (IF hasChildren(tree, step.item)
                        THEN << Step("children", step.item, tree[step.item].check) >>
                        ELSE << >>)
                       \o << Step("paths", step.item, tree[step.item].check),
                             Step("return", step.item, tree[step.item].check) >>
                       \o rest)
              [] step.op = "children" ->
                   Run(f, w,
                       Concat([ i \in 1..Len(kids) |->
                                  (IF is_visible(f, kids[i])
                                   THEN << Step("setCheckState", kids[i], step.state) >>
                                   ELSE << >>)
                                  \o (IF hasChildren(tree, kids[i])
                                      THEN << Step("children", kids[i], step.state) >>
                                      ELSE << >>) ],
                              Len(kids))
                       \o rest)
              [] step.op = "paths" ->
                   Run(f,
                       [w EXCEPT !.tm.selected_paths =
                           IF step.state = Checked
                           THEN @ \cup _add_path_and_children(f, tree, step.item)
                           ELSE @ \ _remove_path_and_children(tree, step.item)],
                       rest)
              [] step.op = "return" ->
                   Run(f,
                       [w EXCEPT !.cfg = save_selection(@, get_selected_paths(w.tm)),
                                 !.sig = connect([@ EXCEPT !.running = @ - 1])],
                       rest)
              [] step.op = "clear" ->
                   Run(f, [w EXCEPT !.tm.selected_paths = {}], rest)
              [] step.op = "uncheck_all" ->
                   Run(f, w,
                       << Step("setCheckState", step.item, Unchecked) >>
                       \o [ i \in 1..Len(kids) |-> Step("uncheck_all", kids[i], Unchecked) ]
                       \o rest)
              [] step.op = "save" ->
                   Run(f, [w EXCEPT !.cfg = save_selection(@, get_selected_paths(w.tm))],
                       rest)

\* the counts of the last event start at zero
NewEvent(g) == [g EXCEPT !.runs = 0, !.nested = 0]

\* the user clicks the check box of an item: the view flips its state
click(f, w, path) ==
    Run(f, [w EXCEPT !.sig = NewEvent(@)],
        << Step("setCheckState", path,
                IF w.tm.tree[path].check = Checked THEN Unchecked ELSE Checked) >>)

\* LLMExportApp.reset_selection: TreeManager.reset_selection clears the set
\* and unchecks from the base item down, then the selection is saved
reset_click(f, w) ==
    Run(f, [w EXCEPT !.sig = NewEvent(@)],
        << Step("clear", RootPath, Unchecked) >>
        \o (IF RootPath \in DOMAIN w.tm.tree
            THEN << Step("uncheck_all", RootPath, Unchecked) >> ELSE << >>)
        \o << Step("save", RootPath, Unchecked) >>)

----------------------------------------------------------------------------
(* The state machine *)

App == [cfg |-> cfg, fe |-> fe, tm |-> tm, ui |-> ui, raised |-> raised]

Becomes(s) ==
    \E r \in {s} :
        /\ cfg' = r.cfg
        /\ fe' = r.fe
        /\ tm' = r.tm
        /\ ui' = r.ui
        /\ raised' = r.raised

\* an exception that leaves a slot ends the process: no handler runs after it
Running == raised = "none"

\* no export was made yet
NoExport == [structure |-> << >>, contents |-> << >>]

\* the set objects are followed only where a client of TreeManager is modelled
NoRefs == [heap |-> << >>, selected |-> 0, returned |-> 0, passed |-> 0]

\* no function of path_utils or selection_logic is followed
NoCall == [fn |-> "none", done |-> FALSE]

\* setup_ui connected handle_item_changed to tree_model.itemChanged once;
\* no slot runs
Connected == [connections |-> 1, running |-> 0, runs |-> 0, nested |-> 0]

NoSnapshot == [stage |-> 0, path |-> EmptyStr, selected |-> {}, check |-> Unchecked]

Init ==
    /\ sep \in {"/", "\\"}
    /\ disk = InitialDisk
    /\ cfg = [current_folder |-> EmptyStr,
              selections     |-> [ f \in Folders |-> {} ],
              folder_filters |-> [ f \in Folders |->
                                     [include_patterns |-> EmptyStr,
                                      exclude_patterns |-> EmptyStr] ],
              recent_folders |-> << >>]
    /\ fe = [base_path |-> EmptyStr, include_patterns |-> << >>,
             exclude_patterns |-> << >>, visible_items |-> {}]
    /\ tm = [base_path |-> EmptyStr, selected_paths |-> {}, tree |-> << >>]
    /\ ui = [include_filter |-> EmptyStr, exclude_filter |-> EmptyStr]
    /\ lastOp = "init"
    /\ deleted = 0
    /\ rt = NoSnapshot
    /\ faults = {}
    /\ raised = "none"
    /\ exported = NoExport
    /\ refs = NoRefs
    /\ call = NoCall
    /\ sig = Connected
    /\ rebuilds = << >>

\* a rebuild by the filter fields that directly follows a reset is
\* recorded as such
History(op) ==
    lastOp' = IF op = "filter" /\ lastOp = "reset" THEN "reset+filter" ELSE op

\* File > Open Folder, or an entry of the recent-folders menu
OpenFolder(folder_path) ==
    /\ Running
    /\ Becomes(open_folder(App, folder_path))
    /\ History("open")
    /\ rt' = NoSnapshot
    /\ UNCHANGED <<sep, disk, deleted, faults, exported, refs, call, sig, rebuilds>>

\* the user edits the include field
EditIncludeFilter(text) ==
    /\ Running
    /\ text # ui.include_filter
    /\ Becomes(include_filter_setText(App, text))
    /\ History("filter")
    /\ rt' = NoSnapshot
    /\ UNCHANGED <<sep, disk, deleted, faults, exported, refs, call, sig, rebuilds>>

\* the user edits the exclude field
EditExcludeFilter(text) ==
    /\ Running
    /\ text # ui.exclude_filter
    /\ Becomes(exclude_filter_setText(App, text))
    /\ History("filter")
    /\ rt' = NoSnapshot
    /\ UNCHANGED <<sep, disk, deleted, faults, exported, refs, call, sig, rebuilds>>

\* the user clicks the check box of an item of the tree
ClickCheckBox(path) ==
    /\ Running
    /\ path \in DOMAIN tm.tree
    /\ Becomes(handle_item_changed(App, path))
    /\ History("toggle")
    /\ rt' = IF tm.tree[path].isDir /\ tm.tree[path].check = Unchecked
             THEN [stage |-> 1, path |-> path,
                   selected |-> tm.selected_paths, check |-> tm.tree[path].check]
             ELSE IF rt.stage = 1 /\ rt.path = path
             THEN [rt EXCEPT !.stage = 2]
             ELSE NoSnapshot
    /\ UNCHANGED <<sep, disk, deleted, faults, exported, refs, call, sig, rebuilds>>

\* the Reset Selection button or menu entry
ResetSelection ==
    /\ Running
    /\ Becomes(reset_selection(App))
    /\ History("reset")
    /\ rt' = NoSnapshot
    /\ UNCHANGED <<sep, disk, deleted, faults, exported, refs, call, sig, rebuilds>>

\* the environment: a file vanishes from disk between two handlers
DeleteFile(e) ==
    /\ deleted < MaxDeletes
    /\ e \in disk
    /\ ~e.isDir
    /\ disk' = disk \ {e}
    /\ deleted' = deleted + 1
    /\ History("delete")
    /\ rt' = NoSnapshot
    /\ UNCHANGED <<sep, cfg, fe, tm, ui, faults, raised, exported, refs, call, sig, rebuilds>>

AllPaths == { JoinComponents(e.segs) : e \in InitialDisk } \cup {RootPath}

Next ==
    \/ \E folder_path \in Folders : OpenFolder(folder_path)
    \/ \E text \in IncludeTexts : EditIncludeFilter(text)
    \/ \E text \in ExcludeTexts : EditExcludeFilter(text)
    \/ \E path \in AllPaths : ClickCheckBox(path)
    \/ ResetSelection
    \/ \E e \in InitialDisk : DeleteFile(e)

Spec == Init /\ [][Next]_vars

----------------------------------------------------------------------------
(* The filter engine on its own: a caller that sets the base path and the  *)
(* two pattern lists in any order                                          *)

\* the comma-separated texts handed to set_include_patterns and
\* set_exclude_patterns
PatternTexts ==
    { EmptyStr,
      <<" ">>,
      <<"*", ".", "p", "y">>,
      <<"*", "*", "/", "b", ".", "p", "y">>,
      <<"s", "u", "b", "/", "*">>,
      <<"a", ".", "p", "y", ",", " ", "d", "o", "c">> }

CallSetBasePath(path) ==
    /\ fe' = FE_set_base_path(fe, path)
    /\ lastOp' = "set_base_path"
    /\ UNCHANGED <<sep, disk, cfg, tm, ui, deleted, rt, faults, raised, exported, refs, call, sig, rebuilds>>

CallSetIncludePatterns(patterns) ==
    /\ fe' = set_include_patterns(fe, patterns)
    /\ lastOp' = "set_include_patterns"
    /\ UNCHANGED <<sep, disk, cfg, tm, ui, deleted, rt, faults, raised, exported, refs, call, sig, rebuilds>>

CallSetExcludePatterns(patterns) ==
    /\ fe' = set_exclude_patterns(fe, patterns)
    /\ lastOp' = "set_exclude_patterns"
    /\ UNCHANGED <<sep, disk, cfg, tm, ui, deleted, rt, faults, raised, exported, refs, call, sig, rebuilds>>

FilterNext ==
    \/ \E path \in {EmptyStr} \cup Folders : CallSetBasePath(path)
    \/ \E patterns \in PatternTexts : CallSetIncludePatterns(patterns)
    \/ \E patterns \in PatternTexts : CallSetExcludePatterns(patterns)

FilterSpec == Init /\ [][FilterNext]_vars

----------------------------------------------------------------------------
(* The export of a saved selection: the configuration file holds a         *)
(* selection for /proj; the user opens /proj and presses Export            *)

\* the files of /proj whose reading can fail
ReadFaults ==
    { {} } \cup { {Fault(e.folder, e.segs, "OSError")} :
                    e \in { x \in InitialDisk : ~x.isDir } }

\* the application right after construction, with a configuration file
\* that holds the selection saved for /proj
Constructed(saved) ==
    [cfg |-> [current_folder |-> EmptyStr,
              selections     |-> [ f \in Folders |->
                                     IF f = ProjFolder THEN saved ELSE {} ],
              folder_filters |-> [ f \in Folders |->
                                     [include_patterns |-> EmptyStr,
                                      exclude_patterns |-> EmptyStr] ],
              recent_folders |-> << >>],
     fe  |-> [base_path |-> EmptyStr, include_patterns |-> << >>,
              exclude_patterns |-> << >>, visible_items |-> {}],
     tm  |-> [base_path |-> EmptyStr, selected_paths |-> {}, tree |-> << >>],
     ui  |-> [include_filter |-> EmptyStr, exclude_filter |-> EmptyStr],
     raised |-> "none"]

ExportInit ==
    /\ sep \in {"/", "\\"}
    /\ disk = InitialDisk
    /\ faults \in ReadFaults
    /\ \E saved \in SUBSET AllPaths :
          /\ cfg = Constructed(saved).cfg
          /\ fe = Constructed(saved).fe
          /\ tm = Constructed(saved).tm
          /\ ui = Constructed(saved).ui
          /\ raised = Constructed(saved).raised
    /\ lastOp = "init"
    /\ deleted = 0
    /\ rt = NoSnapshot
    /\ exported = NoExport
    /\ refs = NoRefs
    /\ call = NoCall
    /\ sig = Connected
    /\ rebuilds = << >>

\* LLMExportApp.export_selected, the user confirming the save dialog; the
\* text written to the chosen file is kept in exported
ExportSelected ==
    /\ Running
    /\ cfg.current_folder # EmptyStr
    /\ get_selected_paths(tm) # {}
    /\ exported' = generate_export_content(cfg.current_folder, get_selected_paths(tm))
    /\ lastOp' = "export"
    /\ UNCHANGED <<sep, disk, cfg, fe, tm, ui, deleted, rt, faults, raised, refs, call, sig, rebuilds>>

ExportNext ==
    \/ OpenFolder(ProjFolder)
    \/ ExportSelected
    \/ \E e \in InitialDisk : DeleteFile(e)

ExportSpec == ExportInit /\ [][ExportNext]_vars

----------------------------------------------------------------------------
(* selection_logic.py *)

\* A state is a dict from normalized paths to {"selected", "partial"}: a
\* function on the set of its keys.  A function of the module that can
\* insert into the dict it was handed is modelled by the pair of what it
\* returns and the dict of the caller as the call leaves it.

DefaultItem == [selected |-> FALSE, partial |-> FALSE]

\* the dict handed to get_item_state, after the call: a missing key is
\* inserted with the default item
get_item_state_inserts(state, path) ==
    IF normalize_path(path) \in DOMAIN state THEN state
    ELSE [ k \in DOMAIN state \cup {normalize_path(path)} |->
             IF k \in DOMAIN state THEN state[k] ELSE DefaultItem ]

\* the item get_item_state returns
get_item_state(state, path) ==
    get_item_state_inserts(state, path)[normalize_path(path)]

\* set_item_state: a copy of the dict with the item of path replaced
set_item_state(state, path, selected, partial) ==
    [ k \in DOMAIN state \cup {normalize_path(path)} |->
        IF k = normalize_path(path)
        THEN [selected |-> selected, partial |-> partial]
        ELSE state[k] ]

is_selected(state, path) ==
    [value |-> get_item_state(state, path).selected,
     state |-> get_item_state_inserts(state, path)]

get_parent_path(path) ==
    IF path = EmptyStr THEN EmptyStr ELSE os_path_dirname(path)

\* all(...) and any(...) of a list of booleans
all(values) == \A i \in DOMAIN values : values[i]
any(values) == \E i \in DOMAIN values : values[i]

\* toggle_selection with standard_behavior() and no is_visible_fn, in
\* three parts.  First the item: its state is read, which may insert it
\* into the dict of the caller, and inverted in a copy.
toggle_item(state, path) ==
    LET item_state == get_item_state(state, path)
        new_selected == ~item_state.selected
    IN [new_selected |-> new_selected,
        new_state    |-> set_item_state(get_item_state_inserts(state, path), path,
                                        new_selected, FALSE),
        state        |-> get_item_state_inserts(state, path)]

\* Last the parent: its state is computed from the list of the siblings,
\* which the code leaves empty
toggle_parent(new_state, path) ==
    LET parent == get_parent_path(path)
        siblings == << >>
        \* get_item_state on the local copy: its insertions stay local
        sibling_states == [ i \in DOMAIN siblings |->
                              get_item_state(new_state, siblings[i]).selected ]
        sibling_visibility == [ i \in DOMAIN siblings |-> TRUE ]
        \* recalculate_up of standard_behavior
        all_selected == all(sibling_states)
        any_selected == any([ i \in DOMAIN siblings |->
                                sibling_states[i] /\ sibling_visibility[i] ])
    IN IF parent = EmptyStr THEN new_state
       ELSE IF all_selected THEN set_item_state(new_state, parent, TRUE, FALSE)
       ELSE IF any_selected THEN set_item_state(new_state, parent, TRUE, TRUE)
       ELSE set_item_state(new_state, parent, FALSE, FALSE)

\* the recursive call for a child: child_children is the empty list, so
\* the call has no loop of its own
toggle_child(state, child) ==
    toggle_parent(toggle_item(state, child).new_state, child)

\* In between the loop over the children, entered when the item became
\* selected (propagate_down of standard_behavior is always True).  The
\* result is the new state and the dict of the caller after the call.
toggle_selection(state, path, children) ==
    LET item == toggle_item(state, path)
        after[i \in 0..Len(children)] ==
            IF i = 0 THEN item.new_state
            ELSE toggle_child(after[i - 1], children[i])
        propagated == IF item.new_selected THEN after[Len(children)] ELSE item.new_state
    IN [new_state |-> toggle_parent(propagated, path), state |-> item.state]

\* apply_pattern_selection: get_item_state reads the old state of every
\* path, the new state holds the paths of all_paths only
apply_pattern_selection(state, pattern, all_paths) ==
    LET built[i \in 0..Len(all_paths)] ==
            IF i = 0 THEN << >>
            ELSE set_item_state(built[i - 1], all_paths[i],
                                matches_pattern(all_paths[i], pattern), FALSE)
        read[i \in 0..Len(all_paths)] ==
            IF i = 0 THEN state
            ELSE get_item_state_inserts(read[i - 1], all_paths[i])
    IN [new_state |-> built[Len(all_paths)], state |-> read[Len(all_paths)]]

----------------------------------------------------------------------------
(* The functions of path_utils on their own: one call, with arguments drawn *)
(* from the texts up to a length                                            *)

\* the texts over chars of length n at most
Texts(chars, n) == UNION { [1..k -> chars] : k \in 0..n }

\* paths: a name character and the two separators
PathTexts == Texts({"a", "/", "\\"}, MaxLen)

\* relative paths, as the filter engine hands them to is_subpath: no
\* separator in front
RelativeTexts == { path \in PathTexts : path = EmptyStr \/ path[1] \notin {"/", "\\"} }

\* patterns: a name character, the wildcard and the separator
GlobTexts == Texts({"a", "*", "/"}, MaxPatternLen)

\* a call that was not made yet
Pending(fn, args) == [fn |-> fn, args |-> args, done |-> FALSE]

\* the call after it returned
Returned(result) ==
    [fn |-> call.fn, args |-> call.args, done |-> TRUE, result |-> result]

PathCalls ==
    { Pending("normalize_path", <<path>>) : path \in PathTexts }
    \cup { Pending("is_subpath", <<parent, child>>) :
              parent \in RelativeTexts, child \in RelativeTexts }
    \cup { Pending("matches_pattern", <<path, pattern>>) :
              path \in PathTexts, pattern \in GlobTexts }

\* the application as Init leaves it, for the runs that call pure functions
AppIdle ==
    /\ cfg = [current_folder |-> EmptyStr,
              selections     |-> [ f \in Folders |-> {} ],
              folder_filters |-> [ f \in Folders |->
                                     [include_patterns |-> EmptyStr,
                                      exclude_patterns |-> EmptyStr] ],
              recent_folders |-> << >>]
    /\ fe = [base_path |-> EmptyStr, include_patterns |-> << >>,
             exclude_patterns |-> << >>, visible_items |-> {}]
    /\ tm = [base_path |-> EmptyStr, selected_paths |-> {}, tree |-> << >>]
    /\ ui = [include_filter |-> EmptyStr, exclude_filter |-> EmptyStr]
    /\ lastOp = "init"
    /\ deleted = 0
    /\ rt = NoSnapshot
    /\ faults = {}
    /\ raised = "none"
    /\ exported = NoExport
    /\ refs = NoRefs
    /\ sig = Connected
    /\ rebuilds = << >>

PathInit ==
    /\ sep \in {"/", "\\"}
    /\ disk = InitialDisk
    /\ AppIdle
    /\ call \in PathCalls

CallFrame ==
    UNCHANGED <<sep, disk, cfg, fe, tm, ui, lastOp, deleted, rt, faults, raised,
                exported, refs, sig, rebuilds>>

CallNormalizePath ==
    /\ call.fn = "normalize_path" /\ ~call.done
    /\ call' = Returned(normalize_path(call.args[1]))
    /\ CallFrame

CallIsSubpath ==
    /\ call.fn = "is_subpath" /\ ~call.done
    /\ call' = Returned(is_subpath(call.args[1], call.args[2]))
    /\ CallFrame

CallMatchesPattern ==
    /\ call.fn = "matches_pattern" /\ ~call.done
    /\ call' = Returned(matches_pattern(call.args[1], call.args[2]))
    /\ CallFrame

PathNext == CallNormalizePath \/ CallIsSubpath \/ CallMatchesPattern

PathSpec == PathInit /\ [][PathNext]_vars

----------------------------------------------------------------------------
(* The functions of selection_logic on their own: one call on a state dict *)

\* the paths of the callers: a directory and the two items in it
DIR   == <<"d">>
KID_A == <<"d", "/", "a">>
KID_B == <<"d", "/", "b">>
SelectionPaths == {DIR, KID_A, KID_B}

\* the items a state holds: unselected, selected, partially selected
ItemStates ==
    { [selected |-> FALSE, partial |-> FALSE],
      [selected |-> TRUE,  partial |-> FALSE],
      [selected |-> TRUE,  partial |-> TRUE] }

\* the state dicts: any of the paths, normalized, as keys
SelectionStates ==
    UNION { [K -> ItemStates] : K \in SUBSET { normalize_path(q) : q \in SelectionPaths } }

\* the children lists handed to toggle_selection with a path
ChildrenLists(path) ==
    IF path = DIR THEN { << >>, <<KID_A>>, <<KID_A, KID_B>> } ELSE { << >> }

SelectionCalls ==
    { Pending("set_item_state", <<state, path, selected, partial>>) :
        state \in SelectionStates, path \in SelectionPaths,
        selected \in BOOLEAN, partial \in BOOLEAN }
    \cup { Pending("is_selected", <<state, path>>) :
              state \in SelectionStates, path \in SelectionPaths }
    \cup UNION { { Pending("toggle_selection", <<state, path, children>>) :
                      state \in SelectionStates, children \in ChildrenLists(path) }
                  : path \in SelectionPaths }
    \cup { Pending("apply_pattern_selection", <<state, pattern, <<KID_A, KID_B>> >>) :
              state \in SelectionStates,
              pattern \in { <<"d", "/", "*">>, <<"*", "*", "/", "a">> } }

SelectionInit ==
    /\ sep \in {"/", "\\"}
    /\ disk = InitialDisk
    /\ AppIdle
    /\ call \in SelectionCalls

CallSetItemState ==
    /\ call.fn = "set_item_state" /\ ~call.done
    /\ call' = Returned([new_state |-> set_item_state(call.args[1], call.args[2],
                                                      call.args[3], call.args[4]),
                         state |-> call.args[1]])
    /\ CallFrame

CallIsSelected ==
    /\ call.fn = "is_selected" /\ ~call.done
    /\ call' = Returned(is_selected(call.args[1], call.args[2]))
    /\ CallFrame

CallToggleSelection ==
    /\ call.fn = "toggle_selection" /\ ~call.done
    /\ call' = Returned(toggle_selection(call.args[1], call.args[2], call.args[3]))
    /\ CallFrame

CallApplyPatternSelection ==
    /\ call.fn = "apply_pattern_selection" /\ ~call.done
    /\ call' = Returned(apply_pattern_selection(call.args[1], call.args[2], call.args[3]))
    /\ CallFrame

SelectionNext ==
    \/ CallSetItemState
    \/ CallIsSelected
    \/ CallToggleSelection
    \/ CallApplyPatternSelection

SelectionSpec == SelectionInit /\ [][SelectionNext]_vars

----------------------------------------------------------------------------
(* Check box events with the signal and its slot followed call by call *)

World == [tm |-> tm, cfg |-> cfg, sig |-> sig]

Happens(w) ==
    \E r \in {w} :
        /\ tm' = r.tm
        /\ cfg' = r.cfg
        /\ sig' = r.sig

SignalFrame ==
    UNCHANGED <<sep, disk, fe, ui, deleted, rt, faults, raised, exported, refs, call,
                rebuilds>>

\* the user clicks the check box of an item of the tree
ItemClicked(path) ==
    /\ Running
    /\ path \in DOMAIN tm.tree
    /\ Happens(click(fe, World, path))
    /\ History("toggle")
    /\ SignalFrame

\* the Reset Selection button or menu entry
ResetClicked ==
    /\ Running
    /\ Happens(reset_click(fe, World))
    /\ History("reset")
    /\ SignalFrame

SignalNext ==
    \/ \E folder_path \in Folders : OpenFolder(folder_path)
    \/ \E text \in IncludeTexts : EditIncludeFilter(text)
    \/ \E path \in AllPaths : ItemClicked(path)
    \/ ResetClicked

SignalSpec == Init /\ [][SignalNext]_vars

----------------------------------------------------------------------------
(* Rebuilds of the tree for folders whose names mix upper and lower case *)

\* the entries /proj may hold: the files a and B, the directories c and D,
\* and the files B and a in c
ListingEntries ==
    { [folder |-> ProjFolder, segs |-> << <<"a">> >>,          isDir |-> FALSE],
      [folder |-> ProjFolder, segs |-> << <<"B">> >>,          isDir |-> FALSE],
      [folder |-> ProjFolder, segs |-> << <<"c">> >>,          isDir |-> TRUE],
      [folder |-> ProjFolder, segs |-> << <<"D">> >>,          isDir |-> TRUE],
      [folder |-> ProjFolder, segs |-> << <<"c">>, <<"B">> >>, isDir |-> FALSE],
      [folder |-> ProjFolder, segs |-> << <<"c">>, <<"a">> >>, isDir |-> FALSE] }

\* a file system: with an entry, the directory it lies in
ListingDisks ==
    { d \in SUBSET ListingEntries :
        \A e \in d : Len(e.segs) = 2 =>
            [folder |-> e.folder, segs |-> <<e.segs[1]>>, isDir |-> TRUE] \in d }

ListingInit ==
    /\ sep \in {"/", "\\"}
    /\ disk \in ListingDisks
    /\ AppIdle
    /\ call = NoCall

ListingNext ==
    \/ \E folder_path \in Folders : OpenFolder(folder_path)
    \/ \E text \in IncludeTexts : EditIncludeFilter(text)

ListingSpec == ListingInit /\ [][ListingNext]_vars

----------------------------------------------------------------------------
(* Rebuilds on a file system whose directories may fail to be listed *)

\* the directories of /proj, the folder itself first, each with the two ways
\* its listing can fail
ListFaults ==
    { Fault(ProjFolder, segs, kind) :
        segs \in { << >> } \cup { e.segs : e \in { x \in InitialDisk : x.isDir } },
        kind \in { "PermissionError", "FileNotFoundError" } }

\* the environment: a directory loses its read permission, or is removed
InjectFault(fault) ==
    /\ Cardinality(faults) < MaxFaults
    /\ fault \notin faults
    /\ faults' = faults \cup {fault}
    /\ History("fault")
    /\ rt' = NoSnapshot
    /\ UNCHANGED <<sep, disk, cfg, fe, tm, ui, deleted, raised, exported, refs, call, sig, rebuilds>>

WalkNext ==
    \/ \E folder_path \in Folders : OpenFolder(folder_path)
    \/ \E text \in IncludeTexts : EditIncludeFilter(text)
    \/ \E text \in ExcludeTexts : EditExcludeFilter(text)
    \/ \E fault \in ListFaults : InjectFault(fault)

WalkSpec == Init /\ [][WalkNext]_vars

----------------------------------------------------------------------------
(* A client of TreeManager that keeps the set objects it hands over and    *)
(* gets back.  refs.heap[o] is the value of the set object o;              *)
(* refs.selected is the object bound to self.selected_paths, whose value   *)
(* tm.selected_paths repeats; refs.returned and refs.passed are the        *)
(* objects the client got from get_selected_paths and gave to              *)
(* set_selected_paths (0: none yet).                                       *)

\* the paths the client puts into a set it holds
ClientPaths == { <<"a", ".", "p", "y">>, <<"c", "o", "p", "y">> }

ClientInit ==
    /\ sep \in {"/", "\\"}
    /\ disk = InitialDisk
    /\ cfg = Constructed({}).cfg
    /\ fe = Constructed({}).fe
    /\ tm = Constructed({}).tm
    /\ ui = Constructed({}).ui
    /\ raised = "none"
    /\ lastOp = "init"
    /\ deleted = 0
    /\ rt = NoSnapshot
    /\ faults = {}
    /\ exported = NoExport
    /\ refs = [heap |-> << {} >>, selected |-> 1, returned |-> 0, passed |-> 0]
    /\ call = NoCall
    /\ sig = Connected
    /\ rebuilds = << >>

\* what no action of the client changes
ClientFrame ==
    UNCHANGED <<sep, disk, cfg, fe, ui, deleted, rt, faults, raised, exported, call, sig, rebuilds>>

\* set_base_path("/proj"); populate_tree()
ClientPopulates ==
    /\ tm' = populate_tree(TM_set_base_path(tm, ProjFolder), fe).tm
    /\ lastOp' = "client_populates"
    /\ UNCHANGED refs
    /\ ClientFrame

\* s = get_selected_paths(): the method returns self.selected_paths itself
ClientGets ==
    /\ refs' = [refs EXCEPT !.returned = refs.selected]
    /\ lastOp' = "client_gets"
    /\ UNCHANGED tm
    /\ ClientFrame

\* the value of the engine's set when the object o becomes new_value
Aliased(o, new_value) ==
    IF o = refs.selected THEN new_value ELSE tm.selected_paths

\* s.add(path) on the set got from get_selected_paths
ClientMutatesReturned(path) ==
    /\ refs.returned # 0
    /\ path \notin refs.heap[refs.returned]
    /\ refs' = [refs EXCEPT !.heap[refs.returned] = @ \cup {path}]
    /\ tm' = [tm EXCEPT !.selected_paths =
                  Aliased(refs.returned, refs.heap[refs.returned] \cup {path})]
    /\ lastOp' = "client_mutates_returned"
    /\ ClientFrame

\* p = set(paths); set_selected_paths(p): the method binds self.selected_paths to p
ClientSets(paths) ==
    /\ Len(refs.heap) < MaxObjects
    /\ refs' = [refs EXCEPT !.heap = Append(@, paths),
                            !.selected = Len(refs.heap) + 1,
                            !.passed = Len(refs.heap) + 1]
    /\ tm' = set_selected_paths(tm, paths)
    /\ lastOp' = "client_sets"
    /\ ClientFrame

\* p.add(path) on the set given to set_selected_paths
ClientMutatesPassed(path) ==
    /\ refs.passed # 0
    /\ path \notin refs.heap[refs.passed]
    /\ refs' = [refs EXCEPT !.heap[refs.passed] = @ \cup {path}]
    /\ tm' = [tm EXCEPT !.selected_paths =
                  Aliased(refs.passed, refs.heap[refs.passed] \cup {path})]
    /\ lastOp' = "client_mutates_passed"
    /\ ClientFrame

\* item.setCheckState(flipped); handle_item_changed(item): the engine adds
\* to and discards from the object bound to self.selected_paths, in place
ClientToggles(path) ==
    /\ path \in DOMAIN tm.tree
    /\ \E t \in { TM_handle_item_changed(
                      tm, fe, path,
                      IF tm.tree[path].check = Checked THEN Unchecked ELSE Checked) } :
          /\ tm' = t
          /\ refs' = [refs EXCEPT !.heap[refs.selected] = t.selected_paths]
    /\ lastOp' = "client_toggles"
    /\ ClientFrame

\* reset_selection(): self.selected_paths.clear(), in place
ClientResets ==
    /\ tm' = TM_reset_selection(tm)
    /\ refs' = [refs EXCEPT !.heap[refs.selected] = {}]
    /\ lastOp' = "client_resets"
    /\ ClientFrame

ClientNext ==
    \/ ClientPopulates
    \/ ClientGets
    \/ \E path \in ClientPaths : ClientMutatesReturned(path)
    \/ \E paths \in { {}, {A_PY} } : ClientSets(paths)
    \/ \E path \in ClientPaths : ClientMutatesPassed(path)
    \/ \E path \in {A_PY, SUB} : ClientToggles(path)
    \/ ClientResets

ClientSpec == ClientInit /\ [][ClientNext]_vars

----------------------------------------------------------------------------
(* Folders and their filters: the handlers of Spec, with the calls of      *)
(* populate_tree that each one makes on record                             *)

\* File > Open Folder, or an entry of the recent-folders menu
FolderOpened(folder_path) ==
    /\ Running
    /\ Becomes(open_folder(App, folder_path))
    /\ rebuilds' = open_folder_rebuilds(App, folder_path)
    /\ History("open")
    /\ UNCHANGED <<sep, disk, deleted, rt, faults, exported, refs, call, sig>>

\* the user edits the include field
IncludeEdited(text) ==
    /\ Running
    /\ text # ui.include_filter
    /\ Becomes(include_filter_setText(App, text))
    /\ rebuilds' = include_filter_setText_rebuilds(App, text)
    /\ History("filter")
    /\ UNCHANGED <<sep, disk, deleted, rt, faults, exported, refs, call, sig>>

\* the user edits the exclude field
ExcludeEdited(text) ==
    /\ Running
    /\ text # ui.exclude_filter
    /\ Becomes(exclude_filter_setText(App, text))
    /\ rebuilds' = exclude_filter_setText_rebuilds(App, text)
    /\ History("filter")
    /\ UNCHANGED <<sep, disk, deleted, rt, faults, exported, refs, call, sig>>

\* the user clicks the check box of an item of the tree: no rebuild
BoxClicked(path) ==
    /\ Running
    /\ path \in DOMAIN tm.tree
    /\ Becomes(handle_item_changed(App, path))
    /\ rebuilds' = << >>
    /\ History("toggle")
    /\ UNCHANGED <<sep, disk, deleted, rt, faults, exported, refs, call, sig>>

FolderNext ==
    \/ \E folder_path \in Folders : FolderOpened(folder_path)
    \/ \E text \in IncludeTexts : IncludeEdited(text)
    \/ \E text \in ExcludeTexts : ExcludeEdited(text)
    \/ \E path \in AllPaths : BoxClicked(path)

FolderSpec == Init /\ [][FolderNext]_vars

----------------------------------------------------------------------------
(* The list of recent folders on its own: a caller of add_recent_folder    *)
(* and set_current_folder, starting from the empty list                    *)

\* names of folders, more than the list can hold
RecentLetters == <<"a", "b", "c", "d", "e", "f", "g", "h", "i", "j", "k", "l">>

\* the folder /r/x, and the same path spelled with a backslash
RecentFolder(x) == <<"/", "r", "/", x>>
RecentAlias(x) == <<"/", "r", "\\", x>>

\* the name of a folder of this list, in either spelling
RecentName(folder_path) == folder_path[Len(folder_path)]

\* the number of a name in RecentLetters
RecentNumber ==
    [ x \in Range(RecentLetters) |-> CHOOSE n \in DOMAIN RecentLetters : RecentLetters[n] = x ]

\* the names the list holds
RecentHeld == { RecentName(cfg.recent_folders[i]) : i \in DOMAIN cfg.recent_folders }

\* the folders a call names next.  A new folder: the first name not used
\* so far (names are used in the order of RecentLetters, and the newest
\* name is always in the list)
NewFolders ==
    { RecentFolder(RecentLetters[m]) :
        m \in { n \in DOMAIN RecentLetters :
                   /\ \A x \in RecentHeld : RecentNumber[x] < n
                   /\ n = 1 \/ RecentLetters[n - 1] \in RecentHeld } }

\* or, in either spelling, the folder that is first, second or last in
\* the list
HeldFolders ==
    UNION { { RecentFolder(RecentName(cfg.recent_folders[i])),
              RecentAlias(RecentName(cfg.recent_folders[i])) } :
            i \in {1, 2, Len(cfg.recent_folders)} \cap DOMAIN cfg.recent_folders }

RecentInit ==
    /\ sep \in {"/", "\\"}
    /\ disk = InitialDisk
    /\ AppIdle
    /\ call = [fn |-> "none", done |-> FALSE, repeats |-> 0]

\* the call, on record with the number of calls so far that named a
\* folder of the list
Called(fn, folder_path) ==
    /\ RecentName(folder_path) \in RecentHeld => call.repeats < MaxRepeats
    /\ call' = [fn |-> fn, args |-> <<folder_path>>, done |-> TRUE,
                repeats |-> IF RecentName(folder_path) \in RecentHeld
                            THEN call.repeats + 1 ELSE call.repeats]
    /\ UNCHANGED <<sep, disk, fe, tm, ui, lastOp, deleted, rt, faults, raised,
                   exported, refs, sig, rebuilds>>

CallAddRecentFolder ==
    \E folder_path \in NewFolders \cup HeldFolders :
        /\ Called("add_recent_folder", folder_path)
        /\ cfg' = add_recent_folder(cfg, folder_path)

CallSetCurrentFolder ==
    \E folder_path \in NewFolders \cup HeldFolders :
        /\ Called("set_current_folder", folder_path)
        /\ cfg' = set_current_folder(cfg, folder_path)

RecentNext ==
    \/ CallAddRecentFolder
    \/ CallSetCurrentFolder

RecentSpec == RecentInit /\ [][RecentNext]_vars

----------------------------------------------------------------------------
(* Vocabulary of the claims *)

selectionSet == tm.selected_paths
Nodes == DOMAIN tm.tree
DirectoryNodes == { p \in Nodes : tm.tree[p].isDir }
FileNodes == { p \in Nodes : ~tm.tree[p].isDir }
stateOf(p) == tm.tree[p].check

\* the state a Directory node has by the invariant of the data model
DerivedState(p) ==
    LET states == { stateOf(c) : c \in Children(tm.tree, p) }
    IN IF states = {} THEN Unchecked
       ELSE IF states = {Checked} THEN Checked
       ELSE IF states = {Unchecked} THEN Unchecked
       ELSE Partial

AfterPopulate == lastOp \in {"open", "filter", "reset+filter"}
NoFilters == fe.include_patterns = << >> /\ fe.exclude_patterns = << >>

\* the relative paths, as the tree stores them, of the entries of the open folder
PathOf(e) == JoinComponents(e.segs)
DirPathsOnDisk == { PathOf(e) : e \in { x \in InitialDisk : x.isDir } }
ExistsOnDisk(p) ==
    \/ p = RootPath
    \/ \E e \in disk : e.folder = tm.base_path /\ PathOf(e) = p
IsFileOnDisk(p) ==
    \E e \in disk : e.folder = tm.base_path /\ ~e.isDir /\ PathOf(e) = p

\* p names a directory above the cached entry v: v is p, the canonical
\* separator, and more
IsAncestorOf(p, v) ==
    /\ p # EmptyStr
    /\ StartsWith(v, Append(normalize_path(p), "\\"))

----------------------------------------------------------------------------
(* Claims *)

\* C1: after any toggle, every Directory node that has children is Checked
\* iff all its children are Checked, Unchecked iff all its children are
\* Unchecked, and Partial otherwise.
C1_DirectoriesDerivedAfterToggle ==
    lastOp = "toggle" =>
        \A d \in DirectoryNodes :
            hasChildren(tm.tree, d) => stateOf(d) = DerivedState(d)

\* C2: immediately after populateTree, every Directory node's state is
\* derived bottom-up from its children, and a Directory with zero children
\* is Unchecked, whatever the selection set contained.
C2_DirectoriesDerivedAfterPopulate ==
    AfterPopulate =>
        \A d \in DirectoryNodes : stateOf(d) = DerivedState(d)

\* C3: for every File node of the tree, the file's relative path is in the
\* selection set iff the node is Checked.
C3_FileSelectedIffChecked ==
    \A p \in FileNodes : (p \in selectionSet) <=> (stateOf(p) = Checked)

C5_NoInvisibleFileSelected ==
    lastOp \in {"filter", "reset+filter"} =>
        \A p \in selectionSet : IsFileOnDisk(p) => is_visible(fe, p)

\* C6: immediately after populateTree or setBasePath, the selection set
\* holds no path whose file does not exist on disk under the current base.
C6_NoStalePathAfterPopulate ==
    AfterPopulate => \A p \in selectionSet : ExistsOnDisk(p)

\* C7 (as claimed): toggling a Directory to checked and then immediately to
\* unchecked restores every descendant File's presence in the selection set
\* and the Directory's own state.
C7_RoundTripRestores ==
    rt.stage = 2 =>
        /\ \A p \in Descendants(tm.tree, rt.path) \cap FileNodes :
              (p \in selectionSet) <=> (p \in rt.selected)
        /\ stateOf(rt.path) = rt.check

\* C7 (amended): toggling a Directory to checked and then immediately to
\* unchecked leaves the Directory Unchecked, as before, and removes the
\* Directory's path and the path of every descendant from the selection set,
\* so a descendant File keeps its pre-toggle presence only if it was not
\* selected before.
C7_RoundTripClearsSubtree ==
    rt.stage = 2 =>
        /\ selectionSet = rt.selected \ ({rt.path} \cup Descendants(tm.tree, rt.path))
        /\ stateOf(rt.path) = rt.check
        /\ stateOf(rt.path) = Unchecked

C7_Witness ==
    /\ rt.stage = 2
    /\ \E p \in Descendants(tm.tree, rt.path) \cap FileNodes :
          /\ p \in rt.selected
          /\ p \notin selectionSet

C9_ResetThenPopulateClears ==
    lastOp = "reset+filter" =>
        /\ get_selected_paths(tm) = {}
        /\ \A p \in Nodes : stateOf(p) = Unchecked

C9_Witness ==
    /\ lastOp = "reset+filter"
    /\ Cardinality(Nodes) >= 3
    /\ cfg.selections[cfg.current_folder] = {}

\* C10: with a pattern set, isVisible(p) is true iff p is in visibleFiles
\* or p is an ancestor directory of some entry of visibleFiles.
C10_VisibleIffCachedOrAncestor ==
    ~NoFilters =>
        \A e \in InitialDisk :
            is_visible(fe, PathOf(e)) <=>
                \/ normalize_path(PathOf(e)) \in fe.visible_items
                \/ \E v \in fe.visible_items : IsAncestorOf(PathOf(e), v)

----------------------------------------------------------------------------
(* Claims about the filter engine, under FilterSpec *)

\* the patterns of the example: include *.py, exclude **/b.py
STAR_PY == <<"*", ".", "p", "y">>
ANY_B_PY == <<"*", "*", "\\", "b", ".", "p", "y">>
SUB_B_PY == <<"s", "u", "b", "/", "b", ".", "p", "y">>

\* a path that names nothing on disk
COPY == <<"c", "o", "p", "y">>

\* the files below the engine's base path, by their normalized relative path
FilesUnderBase == { normalize_path(PathOf(e)) :
                      e \in { x \in disk : x.folder = fe.base_path /\ ~x.isDir } }

\* C11: exclude wins over include: a file is in visibleFiles iff (the
\* include list is empty or the file matches some include pattern) and it
\* matches no exclude pattern; with include *.py and exclude **/b.py,
\* isVisible("a.py") is true, isVisible("sub/b.py") is false, and
\* isVisible("sub") is true only if sub has another visible descendant.
C11_ExcludeWinsOverInclude ==
    /\ fe.base_path # EmptyStr =>
          \A p \in FilesUnderBase :
              (p \in fe.visible_items) <=>
                  /\ \/ fe.include_patterns = << >>
                     \/ MatchesAny(p, fe.include_patterns)
                  /\ ~MatchesAny(p, fe.exclude_patterns)
    /\ ( /\ fe.base_path = ProjFolder
         /\ fe.include_patterns = <<STAR_PY>>
         /\ fe.exclude_patterns = <<ANY_B_PY>> ) =>
          /\ is_visible(fe, A_PY)
          /\ ~is_visible(fe, SUB_B_PY)
          /\ is_visible(fe, SUB) =>
                \E v \in fe.visible_items :
                    v # normalize_path(SUB_B_PY) /\ IsAncestorOf(SUB, v)

C11_Witness ==
    /\ fe.base_path = ProjFolder
    /\ fe.include_patterns = <<STAR_PY>>
    /\ fe.exclude_patterns = <<ANY_B_PY>>
    /\ MatchesAny(normalize_path(SUB_B_PY), fe.include_patterns)
    /\ fe.visible_items = {A_PY}

\* C12: when the include and the exclude list are both empty, isVisible is
\* true for every path, whatever the cache holds: also for a path that is
\* not in the cache, with an empty cache, and with no base path.
C12_NoPatternsEverythingVisible ==
    NoFilters =>
        \A p \in AllPaths \cup {SUB_B_PY, COPY} : is_visible(fe, p)

C12_Witness ==
    /\ NoFilters
    /\ lastOp = "set_base_path"
    /\ fe.base_path = LibFolder
    /\ fe.visible_items = {}
    /\ is_visible(fe, COPY)

\* C19: after any sequence of setBasePath, setIncludePatterns and
\* setExcludePatterns calls on an unchanged disk, visibleFiles equals a
\* fresh rebuild from the current base path and pattern lists, holds only
\* paths of files, and is empty when the base path is unset.
C19_CacheNeverStale ==
    /\ fe.visible_items = _refresh_cache(fe)
    /\ fe.visible_items \subseteq FilesUnderBase
    /\ fe.base_path = EmptyStr => fe.visible_items = {}

C19_Witness ==
    /\ lastOp = "set_include_patterns"
    /\ fe.base_path = ProjFolder
    /\ fe.include_patterns = <<<<"s", "u", "b", "\\", "*">>>>
    /\ fe.exclude_patterns = << >>
    /\ fe.visible_items = {normalize_path(SUB_B_PY)}

----------------------------------------------------------------------------
(* Claims about the export, under ExportSpec *)

\* the entries of the open folder, and those below a directory
EntriesOfFolder == { e \in disk : e.folder = cfg.current_folder }
IsBelow(e, d) ==
    /\ Len(d.segs) < Len(e.segs)
    /\ SubSeq(e.segs, 1, Len(d.segs)) = d.segs

\* the number of components of a relative path
LevelOf(p) == Len(SplitChar(p, sep, << >>))

\* the directory structure has a line for the entry of path p, at its depth
\* (line 1 is the base folder; the names of the model's entries are distinct)
Shown(p) ==
    \E i \in 2..Len(exported.structure) :
        /\ exported.structure[i].name = os_path_basename(p)
        /\ Len(exported.structure[i].prefix) = LevelOf(p) + 1

SelectedFileEntries ==
    { e \in EntriesOfFolder : ~e.isDir /\ PathOf(e) \in selectionSet }

\* C13: the directory structure shows every selected file together with
\* the whole chain of its ancestor directories, whether or not these are
\* selected themselves, and shows no directory without a selected
\* descendant.
C13_StructureShowsAncestorChains ==
    lastOp = "export" =>
        /\ \A e \in SelectedFileEntries :
              /\ Shown(PathOf(e))
              /\ \A d \in EntriesOfFolder :
                    (d.isDir /\ IsBelow(e, d)) => Shown(PathOf(d))
        /\ \A d \in EntriesOfFolder :
              (d.isDir /\ Shown(PathOf(d))) =>
                  \E e \in SelectedFileEntries : IsBelow(e, d)

\* the relative paths the blocks of the content section are headed by
BlockPaths == [ i \in 1..Len(exported.contents) |-> exported.contents[i].header[2] ]

\* C14: the content section has exactly one "File: <relativePath>" block
\* for each selected path that is not a directory, in lexicographic order
\* of the path, and none for a directory; with selectedPaths = {"a.py"} it
\* has the one block of a.py and the tree lists only a.py below the base.
C14_OneBlockPerSelectedFile ==
    lastOp = "export" =>
        /\ Range(BlockPaths) =
              { p \in selectionSet : ~IsDirAt(cfg.current_folder, p) }
        /\ \A i, j \in 1..Len(BlockPaths) :
              i < j => StrLess(BlockPaths[i], BlockPaths[j])
        /\ \A i \in 1..Len(BlockPaths) : exported.contents[i].header[1] = "File: "
        /\ selectionSet = {A_PY} =>
              /\ BlockPaths = <<A_PY>>
              /\ exported.structure =
                    << [prefix |-> <<LAST>>, name |-> <<"p", "r", "o", "j">>, slash |-> TRUE],
                       [prefix |-> <<INDENT, LAST>>, name |-> A_PY, slash |-> FALSE] >>

C14_Witness ==
    /\ lastOp = "export"
    /\ selectionSet = {RootPath, A_PY, SUB, os_path_join(SUB, B_PY)}
    /\ BlockPaths = <<A_PY, os_path_join(SUB, B_PY)>>

\* C15: a file that cannot be read yields a bracketed error marker in
\* place of its content, under its own header, and every other selected
\* file still has its block: one unreadable file does not end the export.
C15_ReadErrorIsInline ==
    lastOp = "export" =>
        \A p \in selectionSet :
            ~IsDirAt(cfg.current_folder, p) =>
                \E i \in 1..Len(exported.contents) :
                    LET block == exported.contents[i]
                    IN /\ block.header = <<"File: ", p>>
                       /\ IF read_error(cfg.current_folder, p) # "none"
                          THEN /\ block.body[1] = "["
                               /\ block.body[Len(block.body)] = "]"
                          ELSE block.body = <<"text of", os_path_join(cfg.current_folder, p)>>

C15_Witness ==
    /\ lastOp = "export"
    /\ Fault(ProjFolder, <<A_PY>>, "OSError") \in faults
    /\ Len(exported.contents) = 2
    /\ exported.contents[1].header = <<"File: ", A_PY>>
    /\ exported.contents[1].body[1] = "["
    /\ exported.contents[2].header = <<"File: ", os_path_join(SUB, B_PY)>>
    /\ exported.contents[2].body[1] = "text of"

----------------------------------------------------------------------------
(* Claims about the sets a client shares with TreeManager, under ClientSpec *)

\* C16: getSelectedPaths returns a defensive copy, and setSelectedPaths
\* keeps a copy: when the client mutates the set it got or the set it gave,
\* the engine's selection set does not change, and a toggle or a reset
\* does not change a set the client got earlier.
C16_SelectionSetNotAliased ==
    [][ /\ lastOp' \in {"client_mutates_returned", "client_mutates_passed"} =>
              tm'.selected_paths = tm.selected_paths
        /\ (lastOp' \in {"client_toggles", "client_resets"} /\ refs.returned # 0) =>
              refs'.heap[refs.returned] = refs.heap[refs.returned] ]_vars

----------------------------------------------------------------------------
(* Claims about rebuilds on a failing file system, under WalkSpec *)

\* the entry lies in a directory, at any depth, whose listing fails
BelowFault(e) ==
    \E k \in 0..(Len(e.segs) - 1) :
        listdir_error(e.folder, SubSeq(e.segs, 1, k)) # "none"

\* C17: a failing directory listing during a tree rebuild or a cache
\* rebuild (permission denied, or a directory that vanished) never
\* propagates to the caller: the subtree of that directory is left out and
\* the rest of the tree is still built.
C17_WalkErrorsNeverPropagate ==
    /\ raised = "none"
    /\ AfterPopulate =>
          \A e \in disk :
              e.folder = tm.base_path =>
                  IF BelowFault(e)
                  THEN /\ PathOf(e) \notin Nodes
                       /\ normalize_path(PathOf(e)) \notin fe.visible_items
                  ELSE is_visible(fe, PathOf(e)) => PathOf(e) \in Nodes

----------------------------------------------------------------------------
(* Claims about the saved selection and the shape of the tree, under Spec *)

\* C18: after a check box was toggled, and after a reset of the selection,
\* the selection saved for the current folder holds exactly the paths of the
\* tree manager's selection.
C18_SavedSelectionFollowsEngine ==
    (lastOp \in {"toggle", "reset"} /\ cfg.current_folder # EmptyStr) =>
        get_selection(cfg, cfg.current_folder) = get_selected_paths(tm)

\* a toggle that left a selection of several paths, saved for the open folder
C18_Witness ==
    /\ lastOp = "toggle"
    /\ cfg.current_folder = ProjFolder
    /\ Cardinality(get_selected_paths(tm)) > 1
    /\ get_selection(cfg, ProjFolder) = get_selected_paths(tm)

\* is_visible holds for an entry somewhere below the directory d
HasVisibleDescendant(d) ==
    \E e \in disk : /\ e.folder = d.folder
                    /\ IsBelow(e, d)
                    /\ is_visible(fe, PathOf(e))

\* C20: after populate_tree a file of the open folder is a node of the tree
\* iff is_visible holds for its relative path, and a directory is a node iff
\* is_visible holds for it or for an entry somewhere below it; the tree has
\* no other node than the base node and these.
C20_TreeHoldsVisibleEntries ==
    (AfterPopulate /\ tm.base_path # EmptyStr) =>
        /\ \A e \in disk :
               e.folder = tm.base_path =>
                   (PathOf(e) \in Nodes <=>
                        \/ is_visible(fe, PathOf(e))
                        \/ e.isDir /\ HasVisibleDescendant(e))
        /\ \A p \in Nodes \ {RootPath} :
               \E e \in disk : e.folder = tm.base_path /\ PathOf(e) = p

\* a rebuild under a filter that keeps the directory sub only for the file
\* below it, and drops the empty directory doc
C20_Witness ==
    /\ AfterPopulate
    /\ tm.base_path = ProjFolder
    /\ JoinComponents(<<SUB>>) \in Nodes
    /\ ~is_visible(fe, JoinComponents(<<SUB>>))
    /\ JoinComponents(<<SUB, B_PY>>) \in Nodes
    /\ JoinComponents(<<DOC>>) \notin Nodes

----------------------------------------------------------------------------
(* Claims about toggles and the states of the nodes, under Spec *)

\* C21: a click on the check box of a Directory node overrides its subtree:
\* afterwards every File node below it, at any depth, is in the selection
\* set iff the box now shows Checked, whatever the file's state was before
\* and also when a directory in between is in the tree only for a visible
\* descendant.
C21_DirectoryToggleOverridesSubtree ==
    [][ \A p \in DirectoryNodes :
            ClickCheckBox(p) =>
                \A d \in Descendants(tm.tree, p) \cap FileNodes :
                    (d \in tm'.selected_paths) <=> (tm'.tree[p].check = Checked) ]_vars

\* C22: a File node is always Unchecked or Checked, never Partial, and
\* right after populate_tree a node whose path is not in the selection set
\* is Unchecked.
C22_FilesTwoStatedNewNodesUnchecked ==
    /\ \A p \in FileNodes : stateOf(p) \in {Unchecked, Checked}
    /\ AfterPopulate =>
          \A p \in Nodes : p \notin selectionSet => stateOf(p) = Unchecked

\* a rebuild that found one file in the selection set and another one not
C22_Witness ==
    /\ lastOp = "filter"
    /\ \E p \in FileNodes : p \in selectionSet /\ stateOf(p) = Checked
    /\ \E p \in FileNodes : p \notin selectionSet /\ stateOf(p) = Unchecked

----------------------------------------------------------------------------
(* Claims about the functions of path_utils, under PathSpec *)

ReturnedFrom(fn) == call.fn = fn /\ call.done

\* the canonical separator: the one normalize_path writes
CanonicalSep == "\\"

\* a name: a text without a separator
IsName(s) == s # EmptyStr /\ \A i \in 1..Len(s) : s[i] \notin {"/", "\\"}

\* C23: is_subpath(parent, child) is true iff, both normalized to the
\* canonical separator, child equals parent or starts with parent followed
\* by the separator; so is_subpath(d, normalize_path(d + sep + f)) is true
\* for a directory d and a file f in it.
C23_SubpathByCanonicalSeparator ==
    ReturnedFrom("is_subpath") =>
        LET parent == normalize_path(call.args[1])
            child == normalize_path(call.args[2])
        IN /\ call.result <=>
                  \/ child = parent
                  \/ StartsWith(child, Append(parent, CanonicalSep))
           /\ \A d \in PathTexts, f \in PathTexts :
                  ( /\ IsName(d) /\ IsName(f)
                    /\ call.args[1] = d
                    /\ call.args[2] = normalize_path(d \o <<sep>> \o f) )
                  => call.result

\* the place of the first "**" of a text, 0 when it has none
FirstStars(p) ==
    LET at == { i \in 1..(Len(p) - 1) : p[i] = "*" /\ p[i + 1] = "*" }
    IN IF at = {} THEN 0 ELSE CHOOSE i \in at : \A j \in at : i <= j

BeforeStars(p) == SubSeq(p, 1, FirstStars(p) - 1)
AfterStars(p) == SubSeq(p, FirstStars(p) + 2, Len(p))

\* the text holds one "**" and, after it, no other
HasOneStars(p) == FirstStars(p) # 0 /\ FirstStars(AfterStars(p)) = 0

\* glob matching within a segment: "*" stands for a run of characters
\* other than the separator
RECURSIVE SegmentMatch(_, _)
SegmentMatch(s, p) ==
    IF p = << >> THEN s = << >>
    ELSE IF Head(p) = "*"
    THEN \E k \in 0..Len(s) :
            /\ \A i \in 1..k : s[i] # CanonicalSep
            /\ SegmentMatch(SubSeq(s, k + 1, Len(s)), Tail(p))
    ELSE s # << >> /\ Head(s) = Head(p) /\ SegmentMatch(Tail(s), Tail(p))

\* fnmatch's matching: "*" stands for any run of characters, separators
\* included
RECURSIVE AnyRunMatch(_, _)
AnyRunMatch(s, p) ==
    IF p = << >> THEN s = << >>
    ELSE IF Head(p) = "*"
    THEN \E k \in 0..Len(s) : AnyRunMatch(SubSeq(s, k + 1, Len(s)), Tail(p))
    ELSE s # << >> /\ Head(s) = Head(p) /\ AnyRunMatch(Tail(s), Tail(p))

C25_NormalizeIdempotent ==
    ReturnedFrom("normalize_path") =>
        /\ normalize_path(call.result) = call.result
        /\ \A i \in 1..Len(call.result) : call.result[i] # "/"
        /\ Len(call.result) = Len(call.args[1])
        /\ \A i \in 1..Len(call.result) :
              call.args[1][i] # "/" => call.result[i] = call.args[1][i]

\* a path with both separators, and "/" more than once
C25_Witness ==
    /\ ReturnedFrom("normalize_path")
    /\ call.args[1] = <<"/", "\\", "/">>
    /\ call.result = <<"\\", "\\", "\\">>

----------------------------------------------------------------------------
(* Claims about the order of the tree, under ListingSpec *)

\* the key of the claimed order: directories first, then by the name
\* without regard to case
NodeKeyLess(x, y) ==
    \/ tm.tree[x].isDir /\ ~tm.tree[y].isDir
    \/ /\ tm.tree[x].isDir = tm.tree[y].isDir
       /\ StrLess(str_lower(os_path_basename(x)), str_lower(os_path_basename(y)))

----------------------------------------------------------------------------
(* Claims about the functions of selection_logic, under SelectionSpec *)

\* the item of a path in a state, the default for a path it does not hold
ItemIn(state, path) ==
    IF normalize_path(path) \in DOMAIN state
    THEN state[normalize_path(path)] ELSE DefaultItem

\* C27: toggle_selection with standard_behavior on an item that was not
\* selected selects the item and every path of the children list, whatever
\* the state of a child was before.
C27_SelectingPropagatesDown ==
    ( /\ ReturnedFrom("toggle_selection")
      /\ ~ItemIn(call.args[1], call.args[2]).selected )
    => \A i \in DOMAIN call.args[3] :
           ItemIn(call.result.new_state, call.args[3][i]).selected

\* the paths that lie in a directory
KidsOf(parent) == { q \in SelectionPaths : get_parent_path(q) = parent }

\* C28: after toggle_selection with standard_behavior on an item that has
\* a parent, the parent is selected and not partial iff all its children
\* are selected, partial iff some but not all are, and unselected iff none
\* is.
C28_ParentReflectsChildren ==
    ( /\ ReturnedFrom("toggle_selection")
      /\ get_parent_path(call.args[2]) # EmptyStr )
    => LET new_state == call.result.new_state
           parent == ItemIn(new_state, get_parent_path(call.args[2]))
           selected == { q \in KidsOf(get_parent_path(call.args[2])) :
                           ItemIn(new_state, q).selected }
           kids == KidsOf(get_parent_path(call.args[2]))
       IN /\ (parent.selected /\ ~parent.partial) <=> selected = kids
          /\ parent.partial <=> (selected # {} /\ selected # kids)
          /\ ~parent.selected <=> selected = {}

\* C29: set_item_state, is_selected, toggle_selection and
\* apply_pattern_selection leave the state dict they were handed as it
\* was: the same keys with the same values.
C29_InputStateUnchanged ==
    ( /\ call.done
      /\ call.fn \in {"set_item_state", "is_selected", "toggle_selection",
                      "apply_pattern_selection"} )
    => /\ DOMAIN call.result.state = DOMAIN call.args[1]
       /\ \A k \in DOMAIN call.args[1] : call.result.state[k] = call.args[1][k]

----------------------------------------------------------------------------
(* Claims about the itemChanged signal, under SignalSpec *)

\* C30: the slot handle_item_changed is never entered while it runs: the
\* changes it makes to the check boxes below the clicked item do not run
\* it again, and between the events (toggles, resets, rebuilds), when no
\* slot runs, it is connected to itemChanged exactly once.
C30_SlotNeverReentered ==
    /\ sig.nested = 0
    /\ sig.running = 0
    /\ sig.connections = 1

\* a click on a directory that changed the boxes below it, with one run of
\* the slot
C30_Witness ==
    /\ lastOp = "toggle"
    /\ sig.runs = 1
    /\ \E p \in DirectoryNodes :
          /\ stateOf(p) = Checked
          /\ \E c \in Children(tm.tree, p) : stateOf(c) = Checked /\ c \in selectionSet

----------------------------------------------------------------------------
(* C31 *)

\* C31: every call of populate_tree finds a filter engine that belongs to
\* the folder of the tree: the base path of the filter engine is the base
\* path of the tree manager, and its include and exclude patterns are the
\* ones the configuration holds for that folder.  This covers the calls
\* made through the two filter fields while open_folder switches folders.
C31_RebuildUsesFolderFilter ==
    \A i \in DOMAIN rebuilds :
        /\ rebuilds[i].fe.base_path = rebuilds[i].base_path
        /\ rebuilds[i].fe.include_patterns
               = _parse_patterns(rebuilds[i].saved.include_patterns)
        /\ rebuilds[i].fe.exclude_patterns
               = _parse_patterns(rebuilds[i].saved.exclude_patterns)

----------------------------------------------------------------------------
(* C32 *)

\* C32: open_folder(B) leaves the persisted state as it was: the filter
\* strings saved for B are the ones saved for B before the call (a folder
\* without an entry counts as the pair of empty strings), and the filters
\* and the selection saved for every other folder are unchanged, whatever
\* folder was open and whatever the filter fields showed before.
C32_OpenFolderKeepsPersistedState ==
    [][ \A B \in Folders :
          FolderOpened(B) =>
            /\ get_folder_filters(cfg', B) = get_folder_filters(cfg, B)
            /\ \A A \in Folders \ {B} :
                  /\ get_folder_filters(cfg', A) = get_folder_filters(cfg, A)
                  /\ get_selection(cfg', A) = get_selection(cfg, A) ]_vars

\* /proj was opened while /lib was open: both filter fields changed their
\* text during the call and each ran apply_filters, /proj has filters of
\* its own and /lib has a saved selection
C32_Witness ==
    /\ lastOp = "open"
    /\ Len(rebuilds) = 3
    /\ cfg.current_folder = ProjFolder
    /\ get_folder_filters(cfg, ProjFolder).include_patterns # EmptyStr
    /\ get_folder_filters(cfg, ProjFolder).exclude_patterns # EmptyStr
    /\ get_folder_filters(cfg, LibFolder)
          = [include_patterns |-> EmptyStr, exclude_patterns |-> EmptyStr]
    /\ get_selection(cfg, LibFolder) # {}

----------------------------------------------------------------------------
(* C33 *)

\* C33: starting from the empty list, after any calls of add_recent_folder
\* and set_current_folder the list of recent folders has at most 10
\* entries, no two entries have the same normalized path, and the folder
\* of the last call is the first entry.
C33_RecentFoldersBoundedDistinctNewestFirst ==
    /\ Len(cfg.recent_folders) <= 10
    /\ \A i, j \in DOMAIN cfg.recent_folders :
          i # j => normalize_path(cfg.recent_folders[i]) # normalize_path(cfg.recent_folders[j])
    /\ call.done =>
          /\ cfg.recent_folders # << >>
          /\ cfg.recent_folders[1] = os_path_abspath(call.args[1])

\* the list is full, an eleventh folder was added and pushed the oldest
\* one out, and then the last folder of the list was named again in the
\* other spelling and moved to the front
C33_Witness ==
    /\ sep = "/"
    /\ Len(cfg.recent_folders) = 10
    /\ RecentLetters[11] \in RecentHeld
    /\ RecentLetters[1] \notin RecentHeld
    /\ call.done
    /\ call.args[1] = RecentAlias(RecentLetters[2])
    /\ cfg.recent_folders[1] = RecentAlias(RecentLetters[2])
    /\ RecentFolder(RecentLetters[2]) \notin Range(cfg.recent_folders)

====
